---- MODULE Spec2Model ----
(***************************************************************************)
(* MedivalOS firmware (medivalos.ino, wifi.ino, api.ino, web.ino) as a     *)
(* state machine: the persisted configuration (EEPROM), the boot sequence  *)
(* with the WiFi join retry loop, the serving loop with its HTTP handlers  *)
(* and the daily refresh scheduler, and the form history refresh.          *)
(*                                                                         *)
(* Strings (Arduino String, char buffers) are sequences of character       *)
(* codes, so that formatting and parsing are modelled by what they do.     *)
(***************************************************************************)
EXTENDS Integers, Sequences, FiniteSets, TLC

VARIABLES
    eeprom,             \* EEPROM contents, address -> byte       (durable)
    wifiSSID, wifiPassword, apiKey, athleteId,
    wifiConfigured, apiConfigured, isAPMode, timeSync,
    currentForm, currentCTL, currentATL, lastUpdateTime,
    scheduleHour, scheduleMinute, gmtOffsetHours, lastDailyFetchDate,
    formHistory, formHistoryCount,
    lastScheduleCheck,  \* the static local of loop()
    pc,                 \* position of the single thread of control
    retry, attempts, lastStatus,   \* locals of connectToWiFi
    clock,              \* system clock: [set, day, hour, min] in UTC
    uptime,             \* index into UptimeSamples: device uptime
    routes,             \* which route table setup() registered
    radioLog,           \* calls made on the WiFi radio during this boot
    sawConnected,       \* some WiFi.status() read of this boot returned WL_CONNECTED
    connectResult,      \* what connectToWiFi returned in this boot
    ev,                 \* the operation that ran last and what it observed/answered
    schedLog,           \* the scheduled refreshes started in this boot: date, outcome
    inbox,              \* requests the network stack has accepted, not yet handled
    run                 \* the refreshFormHistory call in progress: caller, array, index

ramVars == <<wifiSSID, wifiPassword, apiKey, athleteId, wifiConfigured,
             apiConfigured, isAPMode, timeSync, scheduleHour, scheduleMinute,
             gmtOffsetHours, lastDailyFetchDate, lastScheduleCheck>>
credVars == <<wifiSSID, wifiPassword, apiKey, athleteId, wifiConfigured, apiConfigured>>
schedVars == <<scheduleHour, scheduleMinute, gmtOffsetHours>>
histVars == <<formHistory, formHistoryCount, currentForm, currentCTL,
              currentATL, lastUpdateTime>>
joinVars == <<retry, attempts, lastStatus, radioLog, sawConnected, connectResult>>
vars == <<eeprom, wifiSSID, wifiPassword, apiKey, athleteId, wifiConfigured,
          apiConfigured, isAPMode, timeSync, currentForm, currentCTL, currentATL,
          lastUpdateTime, scheduleHour, scheduleMinute, gmtOffsetHours,
          lastDailyFetchDate, formHistory, formHistoryCount, lastScheduleCheck,
          pc, retry, attempts, lastStatus, clock, uptime, routes, radioLog,
          sawConnected, connectResult, ev, schedLog, inbox, run>>
loopVars == <<inbox, run>>

(***************************************************************************)
(* Character codes and string literals of the source.                      *)
(***************************************************************************)
Digit(d) == 48 + d
IsDigit(c) == c >= 48 /\ c <= 57
STR_EMPTY == <<>>
STR_ZERO == <<48>>                                   \* "0"
STR_NEVER == <<78, 101, 118, 101, 114>>              \* "Never"
STR_UNKNOWN == <<117, 110, 107, 110, 111, 119, 110>> \* "unknown"
STR_MASK == <<42, 42, 42, 42, 42, 42, 42, 42>>       \* "********"
STR_AM == <<65, 77>>                                 \* "AM"
STR_PM == <<80, 77>>                                 \* "PM"
CH_COLON == 58
CH_MINUS == 45
CH_PLUS == 43
CH_SPACE == 32

Min(a, b) == IF a < b THEN a ELSE b

\* decimal digits of a natural number, as printf("%d") prints them
RECURSIVE DecNat(_)
DecNat(n) == IF n < 10 THEN <<Digit(n)>> ELSE DecNat(n \div 10) \o <<Digit(n % 10)>>

\* String(int) / printf("%d")
DecInt(n) == IF n < 0 THEN <<CH_MINUS>> \o DecNat(0 - n) ELSE DecNat(n)

\* printf("%0<w>d"): zero padding to width w, the sign first
RECURSIVE ZeroPad(_, _)
ZeroPad(s, w) == IF Len(s) >= w THEN s ELSE ZeroPad(<<Digit(0)>> \o s, w)

FmtInt(n, w) ==
    IF n < 0 THEN <<CH_MINUS>> \o ZeroPad(DecNat(0 - n), w - 1)
    ELSE ZeroPad(DecNat(n), w)

\* snprintf(buf, size, ...): at most size-1 characters are kept
Snprintf(size, s) == SubSeq(s, 1, Min(Len(s), size - 1))

\* String::toInt (atol): leading blanks, an optional sign, then the digits up
\* to the first other character; 0 when there is no digit.
RECURSIVE DigitsValue(_, _, _)
DigitsValue(s, i, acc) ==
    IF i > Len(s) \/ ~IsDigit(s[i]) THEN acc
    ELSE DigitsValue(s, i + 1, acc * 10 + (s[i] - 48))

RECURSIVE SkipBlanks(_, _)
SkipBlanks(s, i) == IF i <= Len(s) /\ s[i] = CH_SPACE THEN SkipBlanks(s, i + 1) ELSE i

ToInt(s) ==
    LET i == SkipBlanks(s, 1)
    IN  IF i > Len(s) THEN 0
        ELSE IF s[i] = CH_MINUS THEN 0 - DigitsValue(s, i + 1, 0)
        ELSE IF s[i] = CH_PLUS THEN DigitsValue(s, i + 1, 0)
        ELSE DigitsValue(s, i, 0)

\* String::substring(from, to), 0-based, to exclusive, clipped to the string
Substring(s, from, to) == SubSeq(s, from + 1, Min(to, Len(s)))

(***************************************************************************)
(* EEPROM layout and the string slots (medivalos.ino).                     *)
(***************************************************************************)
EEPROM_SIZE == 512
EEPROM_WIFI_SSID_ADDR == 0
EEPROM_WIFI_SSID_LEN == 32
EEPROM_WIFI_PASS_ADDR == 32
EEPROM_WIFI_PASS_LEN == 64
EEPROM_API_KEY_ADDR == 96
EEPROM_API_KEY_LEN == 64
EEPROM_ATHLETE_ID_ADDR == 160
EEPROM_ATHLETE_ID_LEN == 32
EEPROM_CONFIGURED_FLAG_ADDR == 192
EEPROM_SCHEDULE_TIME_ADDR == 193
EEPROM_SCHEDULE_TIME_LEN == 8
EEPROM_TZ_OFFSET_ADDR == 201
EEPROM_TZ_OFFSET_LEN == 8

ERASED_BYTE == 255
\* flash as shipped: every byte erased
FactoryEEPROM == [a \in 0..(EEPROM_SIZE - 1) |-> ERASED_BYTE]

EepromWrite(e, addr, byte) == [e EXCEPT ![addr] = byte]

\* for (i..len-1) EEPROM.write(addr + i, data[i]): the cells after the loop
WriteBytes(e, addr, data, i, len) ==
    [a \in (addr + i)..(addr + len - 1) |-> data[a - addr + 1]] @@ e

writeStringToEEPROMUnbounded(e, addr, data, maxLen) ==
    EepromWrite(WriteBytes(e, addr, data, 0, Len(data)), addr + Len(data), 0)

writeStringToEEPROMNoTerminator(e, addr, data, maxLen) ==
    LET len == Min(Len(data), maxLen - 1)
    IN  WriteBytes(e, addr, data, 0, len)

writeStringToEEPROM(e, addr, data, maxLen) ==
    LET len == Min(Len(data), maxLen - 1)
    IN  EepromWrite(WriteBytes(e, addr, data, 0, len), addr + len, 0)

RECURSIVE ReadFrom(_, _, _, _)
ReadFrom(e, addr, maxLen, i) ==
    IF i >= maxLen THEN <<>>
    ELSE IF e[addr + i] = 0 \/ e[addr + i] = ERASED_BYTE THEN <<>>
    ELSE <<e[addr + i]>> \o ReadFrom(e, addr, maxLen, i + 1)

readStringFromEEPROM(e, addr, maxLen) == ReadFrom(e, addr, maxLen, 0)

saveWiFiCredentials(e, ssid, password) ==
    EepromWrite(
        writeStringToEEPROM(
            writeStringToEEPROM(e, EEPROM_WIFI_SSID_ADDR, ssid, EEPROM_WIFI_SSID_LEN),
            EEPROM_WIFI_PASS_ADDR, password, EEPROM_WIFI_PASS_LEN),
        EEPROM_CONFIGURED_FLAG_ADDR, 1)

saveAPIKey(e, key, athId) ==
    writeStringToEEPROM(
        writeStringToEEPROM(e, EEPROM_API_KEY_ADDR, key, EEPROM_API_KEY_LEN),
        EEPROM_ATHLETE_ID_ADDR, athId, EEPROM_ATHLETE_ID_LEN)

saveScheduleConfigShortBuffer(e, hour, minute, tzOffsetHours) ==
    LET scheduleBuffer == Snprintf(5, FmtInt(hour, 2) \o <<CH_COLON>> \o FmtInt(minute, 2))
    IN  writeStringToEEPROM(
            writeStringToEEPROM(e, EEPROM_SCHEDULE_TIME_ADDR, scheduleBuffer,
                                EEPROM_SCHEDULE_TIME_LEN),
            EEPROM_TZ_OFFSET_ADDR, DecInt(tzOffsetHours), EEPROM_TZ_OFFSET_LEN)
saveScheduleConfig(e, hour, minute, tzOffsetHours) ==
    LET scheduleBuffer == Snprintf(6, FmtInt(hour, 2) \o <<CH_COLON>> \o FmtInt(minute, 2))
    IN  writeStringToEEPROM(
            writeStringToEEPROM(e, EEPROM_SCHEDULE_TIME_ADDR, scheduleBuffer,
                                EEPROM_SCHEDULE_TIME_LEN),
            EEPROM_TZ_OFFSET_ADDR, DecInt(tzOffsetHours), EEPROM_TZ_OFFSET_LEN)

clearedEEPROMBelowFlag(e) ==
    [a \in DOMAIN e |-> IF a < EEPROM_CONFIGURED_FLAG_ADDR THEN 0 ELSE e[a]]

\* clearAllCredentials: every byte of the EEPROM e is written 0
clearAllCredentials(e) == [a \in 0..(EEPROM_SIZE - 1) |-> 0]

(***************************************************************************)
(* Wall-clock time.  clock holds the real UTC time (day number, hour,      *)
(* minute), whether the device's system clock has been set by SNTP, and    *)
(* the zone offset given to the last configTime.  time(nullptr) is below   *)
(* 1700000000 until the clock is set.                                      *)
(***************************************************************************)
DAYLIGHT_OFFSET_SEC == 0

BaseDate == <<2025, 12, 30>>        \* the date of day number 0

IsLeap(y) == (y % 4 = 0) /\ ((y % 100 # 0) \/ (y % 400 = 0))
DaysIn(y, m) ==
    IF m = 2 THEN (IF IsLeap(y) THEN 29 ELSE 28)
    ELSE IF m \in {4, 6, 9, 11} THEN 30 ELSE 31
NextDate(d) ==
    IF d[3] < DaysIn(d[1], d[2]) THEN <<d[1], d[2], d[3] + 1>>
    ELSE IF d[2] < 12 THEN <<d[1], d[2] + 1, 1>>
    ELSE <<d[1] + 1, 1, 1>>
RECURSIVE DateOfDay(_)
DateOfDay(n) == IF n <= 0 THEN BaseDate ELSE NextDate(DateOfDay(n - 1))

\* localtime(&now): the broken-down local time for the zone in effect
LocalTime(c) ==
    LET mins == c.hour * 60 + c.min + c.tz * 60 + (DAYLIGHT_OFFSET_SEC \div 60)
        d == DateOfDay(c.day + (mins \div 1440))
    IN  [tm_year |-> d[1] - 1900, tm_mon |-> d[2] - 1, tm_mday |-> d[3],
         tm_hour |-> (mins % 1440) \div 60, tm_min |-> mins % 60]

\* snprintf(buffer, 11, "%04d-%02d-%02d", tm_year + 1900, tm_mon + 1, tm_mday)
FormatDate(tm) ==
    Snprintf(11, FmtInt(tm.tm_year + 1900, 4) \o <<CH_MINUS>> \o
                 FmtInt(tm.tm_mon + 1, 2) \o <<CH_MINUS>> \o FmtInt(tm.tm_mday, 2))

STR_FALLBACK_TODAY == <<50, 48, 50, 53, 45, 48, 49, 45, 51, 49>>   \* "2025-01-31"

getTodayDateFallback(c, synced) == STR_FALLBACK_TODAY

getTodayDate(c, synced) == IF ~synced THEN STR_FALLBACK_TODAY ELSE FormatDate(LocalTime(c))

(***************************************************************************)
(* setupNTP: configTime with the current offset, then up to 20 polls of    *)
(* time(nullptr).  arrives says whether SNTP sets the clock within the     *)
(* polls; a clock that is already set needs no poll.                       *)
(***************************************************************************)
NTP_MAX_POLLS == 20
setupNTPClockStaleOffset(c, offset, arrives) ==
    [c EXCEPT !.set = c.set \/ arrives]
setupNTPClock(c, offset, arrives) ==
    [c EXCEPT !.tz = offset, !.set = c.set \/ arrives]
setupNTPSyncAlways(c, before, arrives) == TRUE

setupNTPSync(c, before, arrives) == IF c.set \/ arrives THEN TRUE ELSE before

(***************************************************************************)
(* Device uptime.  millis() is the uptime in ms modulo 2^32; an unsigned   *)
(* long is held as two 16-bit halves <<high, low>>.  UptimeSamples are the *)
(* readings of millis() at increasing uptimes: 0, 30000, 30001, 60002,     *)
(* 90003, 2^32 - 1 and, past the wrap, 2^32 + 30000.                       *)
(***************************************************************************)
HALF == 65536
SCHEDULE_CHECK_MS == 30000
UptimeSamples == << <<0, 0>>, <<0, 30000>>, <<0, 30001>>, <<0, 60002>>, <<1, 24467>>,
                    <<65535, 65535>>, <<0, 30000>> >>
MaxUptime == 5       \* how many of the samples a run may reach
Millis(u) == UptimeSamples[u]

Sub32NoWrap(a, b) == <<a[1] - b[1], a[2] - b[2]>>

\* a - b in unsigned 32-bit arithmetic
Sub32(a, b) ==
    LET borrow == IF a[2] < b[2] THEN 1 ELSE 0
    IN  <<(a[1] - b[1] - borrow) % HALF, (a[2] - b[2]) % HALF>>

\* x > n for an unsigned 32-bit x and a constant n below 2^16
Above(x, n) == x[1] > 0 \/ x[2] > n

(***************************************************************************)
(* The remote service's answer: an HTTP status and a body.  The body is a  *)
(* sequence of tokens: "[" (lb), "]" (rb), "," (comma), a JSON object      *)
(* (obj, with the three fields the filter keeps) and any other bytes       *)
(* (junk).  ctl and atl are in tenths (424 is 42.4).                       *)
(***************************************************************************)
HTTP_CODE_OK == 200
Tok(t) == [t |-> t, hasId |-> FALSE, id |-> <<>>, hasCtl |-> FALSE, ctl |-> 0,
           hasAtl |-> FALSE, atl |-> 0]
Obj(id, ctl, atl) == [t |-> "obj", hasId |-> TRUE, id |-> id, hasCtl |-> TRUE,
                      ctl |-> ctl, hasAtl |-> TRUE, atl |-> atl]
NoResp == [code |-> 0, body |-> <<>>]

\* String::indexOf / lastIndexOf of a bracket, 0-based, -1 when absent
IndexOf(body, t) ==
    LET at == {i \in 0..(Len(body) - 1) : body[i + 1].t = t}
    IN  IF at = {} THEN -1 ELSE CHOOSE i \in at : \A j \in at : i <= j
LastIndexOf(body, t) ==
    LET at == {i \in 0..(Len(body) - 1) : body[i + 1].t = t}
    IN  IF at = {} THEN -1 ELSE CHOOSE i \in at : \A j \in at : i >= j

\* the trimming of fetchWellnessJson: cut what precedes the first "[" and
\* what follows the last "]"
TrimResponse(response) ==
    IF Len(response) > 0
    THEN LET jsonStart == IndexOf(response, "lb")
             jsonEnd == LastIndexOf(response, "rb")
         IN  IF jsonStart >= 0 /\ jsonEnd > jsonStart
                THEN IF jsonStart > 0 \/ jsonEnd < Len(response) - 1
                        THEN Substring(response, jsonStart, jsonEnd + 1)
                        ELSE response
                ELSE response
    ELSE response

\* deserializeJson: one JSON value is read from the start of the input; what
\* follows a complete value is not read.  After "[" the reader takes objects
\* and commas in turn; the first token that is neither ends the array when it
\* is "]" and follows "[" or an object, and is a syntax error otherwise.
ParseError == [error |-> TRUE, isArray |-> FALSE, elems |-> <<>>]
ExpectedAt(i) == IF (i - 2) % 2 = 0 THEN "obj" ELSE "comma"
ParseArray(body) ==
    LET stops == {i \in 2..(Len(body) + 1) : i > Len(body) \/ body[i].t # ExpectedAt(i)}
        p == CHOOSE i \in stops : \A j \in stops : i <= j
    IN  IF p > Len(body) THEN ParseError
        ELSE IF body[p].t = "rb" /\ (p = 2 \/ ExpectedAt(p) = "comma")
                THEN [error |-> FALSE, isArray |-> TRUE,
                      elems |-> [k \in 1..((p - 1) \div 2) |-> body[2 * k]]]
        ELSE ParseError

deserializeJson(body) ==
    IF Len(body) = 0 THEN ParseError
    ELSE IF body[1].t = "obj" THEN [error |-> FALSE, isArray |-> FALSE, elems |-> <<>>]
    ELSE IF body[1].t = "lb" THEN ParseArray(body)
    ELSE ParseError

\* fetchWellnessJson for the answer resp: whether it returns true, whether a
\* GET was issued, and the array doc.as<JsonArray>() then holds
fetchWellnessJsonLenient(resp) ==
    IF ~apiConfigured THEN [ok |-> FALSE, get |-> FALSE, arr |-> <<>>]
    ELSE IF resp.code # HTTP_CODE_OK THEN [ok |-> FALSE, get |-> TRUE, arr |-> <<>>]
    ELSE [ok |-> TRUE, get |-> TRUE, arr |-> deserializeJson(TrimResponse(resp.body)).elems]

fetchWellnessJson(resp) ==
    IF ~apiConfigured THEN [ok |-> FALSE, get |-> FALSE, arr |-> <<>>]
    ELSE IF resp.code # HTTP_CODE_OK THEN [ok |-> FALSE, get |-> TRUE, arr |-> <<>>]
    ELSE LET doc == deserializeJson(TrimResponse(resp.body))
         IN  IF doc.error THEN [ok |-> FALSE, get |-> TRUE, arr |-> <<>>]
             ELSE [ok |-> TRUE, get |-> TRUE, arr |-> doc.elems]

(***************************************************************************)
(* refreshFormHistory (api.ino).                                           *)
(***************************************************************************)
FORM_HISTORY_DAYS == 30

\* round(): to nearest, halves away from zero; x in tenths
Round(x) == IF x >= 0 THEN (x + 5) \div 10 ELSE 0 - ((5 - x) \div 10)

FormEntryOfRoundDiff(entry) ==
    LET date == IF entry.hasId THEN entry.id ELSE STR_UNKNOWN
        rawCtl == IF entry.hasCtl THEN entry.ctl ELSE 0
        rawAtl == IF entry.hasAtl THEN entry.atl ELSE 0
    IN  [date |-> date, ctl |-> Round(rawCtl), atl |-> Round(rawAtl),
         form |-> Round(rawCtl - rawAtl)]

\* the FormEntry stored for one element of the array
FormEntryOf(entry) ==
    LET date == IF entry.hasId THEN entry.id ELSE STR_UNKNOWN
        rawCtl == IF entry.hasCtl THEN entry.ctl ELSE 0
        rawAtl == IF entry.hasAtl THEN entry.atl ELSE 0
        ctl == Round(rawCtl)
        atl == Round(rawAtl)
    IN  [date |-> date, ctl |-> ctl, atl |-> atl, form |-> ctl - atl]

EmptyEntry == [date |-> STR_EMPTY, ctl |-> 0, atl |-> 0, form |-> 0]
EmptyHistory == [i \in 0..(FORM_HISTORY_DAYS - 1) |-> EmptyEntry]

StoredCountUnbounded(arr) == Len(arr)

\* the copy loop: formHistoryCount = 0, then one entry per element while
\* formHistoryCount < FORM_HISTORY_DAYS
StoredCount(arr) == Min(Len(arr), FORM_HISTORY_DAYS)
\* the slots written are formHistory[0] .. formHistory[StoredCount - 1]
StoredHistory(arr) ==
    [i \in DOMAIN formHistory \cup 0..(StoredCount(arr) - 1) |->
        IF i < StoredCount(arr) THEN FormEntryOf(arr[i + 1]) ELSE formHistory[i]]

SnapshotIndexFirst(n) == 0

\* the slot the current snapshot is taken from: formHistory[formHistoryCount - 1]
SnapshotIndex(n) == n - 1

\* the whole of refreshFormHistory for the answer resp: its return value and
\* the values it leaves in the globals
refreshFormHistory(resp) ==
    LET f == fetchWellnessJson(resp)
        kept == [ok |-> FALSE, get |-> f.get, count |-> formHistoryCount,
                 hist |-> formHistory, cCTL |-> currentCTL, cATL |-> currentATL,
                 cForm |-> currentForm, lut |-> lastUpdateTime]
    IN  IF ~f.ok THEN kept
        ELSE LET n == StoredCount(f.arr)
                 h == StoredHistory(f.arr)
             IN  IF n = 0 THEN [kept EXCEPT !.count = 0, !.hist = h]
                 ELSE [ok |-> TRUE, get |-> TRUE, count |-> n, hist |-> h,
                       cCTL |-> h[SnapshotIndex(n)].ctl, cATL |-> h[SnapshotIndex(n)].atl,
                       cForm |-> h[SnapshotIndex(n)].form, lut |-> h[SnapshotIndex(n)].date]

\* the assignment of a refresh's outcome to the globals
ApplyRefresh(r) ==
    /\ formHistoryCount' = r.count
    /\ formHistory' = r.hist
    /\ currentCTL' = r.cCTL
    /\ currentATL' = r.cATL
    /\ currentForm' = r.cForm
    /\ lastUpdateTime' = r.lut

(***************************************************************************)
(* What the last operation did: its name, whether it started a refresh,    *)
(* the refresh's return value, whether an HTTP GET went out, the remote    *)
(* answer it consumed, and the reply it sent to the browser: its status    *)
(* (0: no reply), the "success" flag of a JSON reply and what else the     *)
(* reply carries ("error", "message", "html", "redirect").                 *)
(***************************************************************************)
Ev(op, started, ok, get, resp, code, success, key) ==
    [op |-> op, started |-> started, ok |-> ok, get |-> get, resp |-> resp,
     code |-> code, success |-> success, key |-> key]
Quiet(op) == Ev(op, FALSE, FALSE, FALSE, NoResp, 0, FALSE, "")

\* no call of refreshFormHistory is in progress
NoRun == [owner |-> "none", arr |-> <<>>, i |-> 0]

RadioOp(op, arg) == [op |-> op, arg |-> arg, ssid |-> <<>>, pass |-> <<>>]
RadioBegin(ssid, pass) == [op |-> "begin", arg |-> "", ssid |-> ssid, pass |-> pass]

(***************************************************************************)
(* Reset: the globals take their initialisers (medivalos.ino 66-99); the   *)
(* zone set by configTime is gone, and the system clock survives the       *)
(* restart or not (kept).                                                  *)
(***************************************************************************)
StartupKeepsMarker(kept) ==
    /\ pc = "reset"
    /\ pc' = "boot"
    /\ wifiSSID' = STR_EMPTY /\ wifiPassword' = STR_EMPTY
    /\ apiKey' = STR_EMPTY /\ athleteId' = STR_ZERO
    /\ wifiConfigured' = FALSE /\ apiConfigured' = FALSE
    /\ isAPMode' = FALSE /\ timeSync' = FALSE
    /\ currentForm' = 0 /\ currentCTL' = 0 /\ currentATL' = 0
    /\ lastUpdateTime' = STR_NEVER
    /\ scheduleHour' = 6 /\ scheduleMinute' = 0 /\ gmtOffsetHours' = -6
    /\ UNCHANGED lastDailyFetchDate
    /\ formHistory' = EmptyHistory /\ formHistoryCount' = 0
    /\ lastScheduleCheck' = <<0, 0>>
    /\ retry' = 0 /\ attempts' = 0 /\ lastStatus' = "none"
    /\ clock' = [clock EXCEPT !.set = clock.set /\ kept, !.tz = 0]
    /\ uptime' = 1
    /\ routes' = "none"
    /\ radioLog' = <<>>
    /\ sawConnected' = FALSE
    /\ connectResult' = "none"
    /\ ev' = Quiet("startup")
    /\ schedLog' = <<>>
    /\ inbox' = <<>>
    /\ run' = NoRun
    /\ UNCHANGED eeprom

Startup(kept) ==
    /\ pc = "reset"
    /\ pc' = "boot"
    /\ wifiSSID' = STR_EMPTY /\ wifiPassword' = STR_EMPTY
    /\ apiKey' = STR_EMPTY /\ athleteId' = STR_ZERO
    /\ wifiConfigured' = FALSE /\ apiConfigured' = FALSE
    /\ isAPMode' = FALSE /\ timeSync' = FALSE
    /\ currentForm' = 0 /\ currentCTL' = 0 /\ currentATL' = 0
    /\ lastUpdateTime' = STR_NEVER
    /\ scheduleHour' = 6 /\ scheduleMinute' = 0 /\ gmtOffsetHours' = -6
    /\ lastDailyFetchDate' = STR_EMPTY
    /\ formHistory' = EmptyHistory /\ formHistoryCount' = 0
    /\ lastScheduleCheck' = <<0, 0>>
    /\ retry' = 0 /\ attempts' = 0 /\ lastStatus' = "none"
    /\ clock' = [clock EXCEPT !.set = clock.set /\ kept, !.tz = 0]
    /\ uptime' = 1
    /\ routes' = "none"
    /\ radioLog' = <<>>
    /\ sawConnected' = FALSE
    /\ connectResult' = "none"
    /\ ev' = Quiet("startup")
    /\ schedLog' = <<>>
    /\ inbox' = <<>>
    /\ run' = NoRun
    /\ UNCHANGED eeprom

(***************************************************************************)
(* loadCredentials (medivalos.ino), as values read from the EEPROM e.      *)
(***************************************************************************)
LoadedWiFiWrongSlot(e) ==
    IF e[EEPROM_CONFIGURED_FLAG_ADDR] = 1
    THEN LET ssid == readStringFromEEPROM(e, EEPROM_WIFI_PASS_ADDR, EEPROM_WIFI_SSID_LEN)
         IN  [ssid |-> ssid,
              password |-> readStringFromEEPROM(e, EEPROM_WIFI_PASS_ADDR, EEPROM_WIFI_PASS_LEN),
              configured |-> Len(ssid) > 0]
    ELSE [ssid |-> wifiSSID, password |-> wifiPassword, configured |-> wifiConfigured]

LoadedWiFi(e) ==
    IF e[EEPROM_CONFIGURED_FLAG_ADDR] = 1
    THEN LET ssid == readStringFromEEPROM(e, EEPROM_WIFI_SSID_ADDR, EEPROM_WIFI_SSID_LEN)
         IN  [ssid |-> ssid,
              password |-> readStringFromEEPROM(e, EEPROM_WIFI_PASS_ADDR, EEPROM_WIFI_PASS_LEN),
              configured |-> Len(ssid) > 0]
    ELSE [ssid |-> wifiSSID, password |-> wifiPassword, configured |-> wifiConfigured]

LoadedAPIAlwaysConfigured(e) ==
    LET key == readStringFromEEPROM(e, EEPROM_API_KEY_ADDR, EEPROM_API_KEY_LEN)
        id == readStringFromEEPROM(e, EEPROM_ATHLETE_ID_ADDR, EEPROM_ATHLETE_ID_LEN)
    IN  [key |-> key, athleteId |-> IF Len(id) = 0 THEN STR_ZERO ELSE id,
         configured |-> TRUE]

LoadedAPI(e) ==
    LET key == readStringFromEEPROM(e, EEPROM_API_KEY_ADDR, EEPROM_API_KEY_LEN)
        id == readStringFromEEPROM(e, EEPROM_ATHLETE_ID_ADDR, EEPROM_ATHLETE_ID_LEN)
    IN  [key |-> key, athleteId |-> IF Len(id) = 0 THEN STR_ZERO ELSE id,
         configured |-> Len(key) > 0]

LoadedSchedule(e) ==
    LET scheduleValue == readStringFromEEPROM(e, EEPROM_SCHEDULE_TIME_ADDR,
                                              EEPROM_SCHEDULE_TIME_LEN)
        tzOffsetValue == readStringFromEEPROM(e, EEPROM_TZ_OFFSET_ADDR, EEPROM_TZ_OFFSET_LEN)
        timeOk == Len(scheduleValue) = 5 /\ scheduleValue[3] = CH_COLON
    IN  [hour |-> IF timeOk THEN ToInt(Substring(scheduleValue, 0, 2)) ELSE scheduleHour,
         minute |-> IF timeOk THEN ToInt(Substring(scheduleValue, 3, 5)) ELSE scheduleMinute,
         tz |-> IF Len(tzOffsetValue) > 0 THEN ToInt(tzOffsetValue) ELSE gmtOffsetHours]

\* setup(): setupEEPROM, loadCredentials, and the test of wifiConfigured that
\* decides whether connectToWiFi is called
LoadCredentials ==
    /\ pc = "boot"
    /\ LET w == LoadedWiFi(eeprom)
           a == LoadedAPI(eeprom)
           sc == LoadedSchedule(eeprom)
       IN  /\ wifiSSID' = w.ssid
           /\ wifiPassword' = w.password
           /\ wifiConfigured' = w.configured
           /\ apiKey' = a.key
           /\ athleteId' = a.athleteId
           /\ apiConfigured' = a.configured
           /\ scheduleHour' = sc.hour
           /\ scheduleMinute' = sc.minute
           /\ gmtOffsetHours' = sc.tz
           /\ pc' = IF w.configured THEN "connect" ELSE "apmode"
    /\ ev' = Quiet("loadCredentials")
    /\ UNCHANGED <<eeprom, isAPMode, timeSync, histVars, lastDailyFetchDate,
                   lastScheduleCheck, joinVars, clock, uptime, routes, schedLog, loopVars>>

(***************************************************************************)
(* connectToWiFi (wifi.ino).  Every WiFi.status() call is a read of its    *)
(* own: the radio may report something else each time.                     *)
(***************************************************************************)
MAX_RETRIES_PLUS_ONE == 3 + 1
MAX_RETRIES == 3
CONNECT_TIMEOUT == 30
WL_CONNECTED == "WL_CONNECTED"
WL_NO_SSID_AVAIL == "WL_NO_SSID_AVAIL"
WL_CONNECT_FAILED == "WL_CONNECT_FAILED"
WL_DISCONNECTED == "WL_DISCONNECTED"
RadioStatuses == {WL_DISCONNECTED, WL_NO_SSID_AVAIL, WL_CONNECT_FAILED, WL_CONNECTED}

\* the radio calls made once, before the retry loop
RadioResetOps ==
    <<RadioOp("persistent", "false"), RadioOp("mode", "WIFI_OFF"), RadioOp("delay", "1000"),
      RadioOp("mode", "WIFI_STA"), RadioOp("delay", "100"),
      RadioOp("setSleepMode", "WIFI_NONE_SLEEP"), RadioOp("setAutoReconnect", "true")>>

\* the radio calls that open one attempt
AttemptOpsNoDisconnect(ssid, pass) == <<RadioBegin(ssid, pass)>>

AttemptOps(ssid, pass) ==
    <<RadioOp("disconnect", "true"), RadioOp("delay", "500"), RadioBegin(ssid, pass)>>

BackoffOpsNoWait == <<RadioOp("disconnect", "true")>>

\* the radio calls between two attempts
BackoffOps == <<RadioOp("disconnect", "true"), RadioOp("delay", "3000")>>

\* the empty-SSID test and the radio reset
ConnectEntry ==
    /\ pc = "connect"
    /\ IF Len(wifiSSID) = 0
          THEN /\ connectResult' = "false"
               /\ pc' = "apmode"
               /\ UNCHANGED <<radioLog, retry>>
          ELSE /\ radioLog' = radioLog \o RadioResetOps
               /\ retry' = 1
               /\ pc' = "attempt"
               /\ UNCHANGED connectResult
    /\ ev' = Quiet("connectToWiFi")
    /\ UNCHANGED <<eeprom, ramVars, histVars, attempts, lastStatus, sawConnected,
                   clock, uptime, routes, schedLog, loopVars>>

\* the head of the for loop's body: disconnect, pause, WiFi.begin
AttemptBegin ==
    /\ pc = "attempt"
    /\ radioLog' = radioLog \o AttemptOps(wifiSSID, wifiPassword)
    /\ attempts' = 0
    /\ lastStatus' = "none"
    /\ pc' = "cond"
    /\ ev' = Quiet("begin")
    /\ UNCHANGED <<eeprom, ramVars, histVars, retry, sawConnected, connectResult,
                   clock, uptime, routes, schedLog, loopVars>>

PollCondNoLimit(status) ==
    /\ pc = "cond"
    /\ sawConnected' = (sawConnected \/ status = WL_CONNECTED)
    /\ pc' = IF status # WL_CONNECTED THEN "body" ELSE "after"
    /\ ev' = Quiet("pollCond")
    /\ UNCHANGED <<eeprom, ramVars, histVars, retry, attempts, lastStatus, radioLog,
                   connectResult, clock, uptime, routes, schedLog, loopVars>>

\* the while condition: WiFi.status() != WL_CONNECTED && attempts < CONNECT_TIMEOUT * 2
PollCond(status) ==
    /\ pc = "cond"
    /\ sawConnected' = (sawConnected \/ status = WL_CONNECTED)
    /\ pc' = IF status # WL_CONNECTED /\ attempts < CONNECT_TIMEOUT * 2
                THEN "body" ELSE "after"
    /\ ev' = Quiet("pollCond")
    /\ UNCHANGED <<eeprom, ramVars, histVars, retry, attempts, lastStatus, radioLog,
                   connectResult, clock, uptime, routes, schedLog, loopVars>>

PollBodyNoCount(status) ==
    /\ pc = "body"
    /\ sawConnected' = (sawConnected \/ status = WL_CONNECTED)
    /\ lastStatus' = status
    /\ pc' = IF status \in {WL_NO_SSID_AVAIL, WL_CONNECT_FAILED} THEN "after" ELSE "cond"
    /\ ev' = Quiet("pollBody")
    /\ UNCHANGED <<eeprom, ramVars, histVars, retry, attempts, radioLog, connectResult,
                   clock, uptime, routes, schedLog, loopVars>>

\* the while body: delay, read the status, count the poll, break on a
\* definitive failure
PollBody(status) ==
    /\ pc = "body"
    /\ sawConnected' = (sawConnected \/ status = WL_CONNECTED)
    /\ lastStatus' = status
    /\ attempts' = attempts + 1
    /\ pc' = IF status \in {WL_NO_SSID_AVAIL, WL_CONNECT_FAILED} THEN "after" ELSE "cond"
    /\ ev' = Quiet("pollBody")
    /\ UNCHANGED <<eeprom, ramVars, histVars, retry, radioLog, connectResult,
                   clock, uptime, routes, schedLog, loopVars>>

\* after the while loop: if (WiFi.status() == WL_CONNECTED) return true.
\* attempts and lastStatus go out of scope here, retry when the function returns.
AfterPoll(status) ==
    /\ pc = "after"
    /\ sawConnected' = (sawConnected \/ status = WL_CONNECTED)
    /\ attempts' = 0
    /\ lastStatus' = "none"
    /\ IF status = WL_CONNECTED
          THEN /\ isAPMode' = FALSE
               /\ connectResult' = "true"
               /\ retry' = 0
               /\ pc' = "station"
          ELSE /\ pc' = "failed"
               /\ UNCHANGED <<isAPMode, connectResult, retry>>
    /\ ev' = Quiet("afterPoll")
    /\ UNCHANGED <<eeprom, credVars, timeSync, schedVars, lastDailyFetchDate,
                   lastScheduleCheck, histVars, radioLog, clock, uptime, routes, schedLog, loopVars>>

\* the failed attempt: the status is read for the log, then the backoff and
\* the next attempt, or the end of the loop and return false
AttemptFailed(status) ==
    /\ pc = "failed"
    /\ sawConnected' = (sawConnected \/ status = WL_CONNECTED)
    /\ IF retry < MAX_RETRIES
          THEN /\ radioLog' = radioLog \o BackoffOps
               /\ retry' = retry + 1
               /\ pc' = "attempt"
               /\ UNCHANGED connectResult
          ELSE /\ connectResult' = "false"
               /\ retry' = 0
               /\ pc' = "apmode"
               /\ UNCHANGED radioLog
    /\ ev' = Quiet("attemptFailed")
    /\ UNCHANGED <<eeprom, ramVars, histVars, attempts, lastStatus,
                   clock, uptime, routes, schedLog, loopVars>>

StartAPModeStationRoutes ==
    /\ pc = "apmode"
    /\ radioLog' = radioLog \o <<RadioOp("mode", "WIFI_AP"), RadioOp("softAP", "AP_SSID"),
                                 RadioOp("delay", "100")>>
    /\ isAPMode' = TRUE
    /\ routes' = "station"
    /\ pc' = "serving"
    /\ ev' = Quiet("startAPMode")
    /\ UNCHANGED <<eeprom, credVars, timeSync, schedVars, lastDailyFetchDate,
                   lastScheduleCheck, histVars, retry, attempts, lastStatus,
                   sawConnected, connectResult, clock, uptime, schedLog, loopVars>>

\* the else branch of setup(): startAPMode and the access-point routes
StartAPMode ==
    /\ pc = "apmode"
    /\ radioLog' = radioLog \o <<RadioOp("mode", "WIFI_AP"), RadioOp("softAP", "AP_SSID"),
                                 RadioOp("delay", "100")>>
    /\ isAPMode' = TRUE
    /\ routes' = "ap"
    /\ pc' = "serving"
    /\ ev' = Quiet("startAPMode")
    /\ UNCHANGED <<eeprom, credVars, timeSync, schedVars, lastDailyFetchDate,
                   lastScheduleCheck, histVars, retry, attempts, lastStatus,
                   sawConnected, connectResult, clock, uptime, schedLog, loopVars>>

\* setupNTP in steps.  Its local counter shares the model variable attempts
\* with the local of the same name in connectToWiFi, which has returned.
\* configTime and the first reading of the time:
NtpConfig ==
    /\ pc = "station"
    /\ clock' = [clock EXCEPT !.tz = gmtOffsetHours]
    /\ attempts' = 0
    /\ pc' = "ntp"
    /\ ev' = Quiet("configTime")
    /\ UNCHANGED <<eeprom, ramVars, histVars, retry, lastStatus, radioLog, sawConnected,
                   connectResult, uptime, routes, schedLog, loopVars>>

\* one pass of while (now < 1700000000 && attempts < 20): delay, read the
\* time, count
NtpPoll(arrives) ==
    /\ pc = "ntp"
    /\ ~clock.set /\ attempts < NTP_MAX_POLLS
    /\ clock' = [clock EXCEPT !.set = arrives]
    /\ attempts' = attempts + 1
    /\ ev' = Quiet("ntpPoll")
    /\ UNCHANGED <<eeprom, ramVars, histVars, retry, lastStatus, radioLog, sawConnected,
                   connectResult, pc, uptime, routes, schedLog, loopVars>>

\* the end of the loop, the test of the time, and from setup() setupMDNS
\* and the station routes
NtpDone ==
    /\ pc = "ntp"
    /\ ~(~clock.set /\ attempts < NTP_MAX_POLLS)
    /\ timeSync' = (timeSync \/ clock.set)
    /\ attempts' = 0
    /\ routes' = "station"
    /\ pc' = "initfetch"
    /\ ev' = Quiet("setupNTP")
    /\ UNCHANGED <<eeprom, credVars, isAPMode, schedVars, lastDailyFetchDate,
                   lastScheduleCheck, histVars, retry, lastStatus, radioLog, sawConnected,
                   connectResult, clock, uptime, schedLog, loopVars>>

\* the then branch of setup(): setupNTP, setupMDNS and the station routes
SetupStation(arrives) ==
    /\ pc = "station"
    /\ clock' = setupNTPClock(clock, gmtOffsetHours, arrives)
    /\ timeSync' = setupNTPSync(clock, timeSync, arrives)
    /\ routes' = "station"
    /\ pc' = "initfetch"
    /\ ev' = Quiet("setupNTP")
    /\ UNCHANGED <<eeprom, credVars, isAPMode, schedVars, lastDailyFetchDate,
                   lastScheduleCheck, histVars, joinVars, uptime, schedLog, loopVars>>

InitialFetchNoTimeGate(resp) ==
    /\ pc = "initfetch"
    /\ pc' = "serving"
    /\ IF apiConfigured
          THEN LET r == refreshFormHistory(resp)
               IN  /\ ApplyRefresh(r)
                   /\ lastDailyFetchDate' =
                          IF r.ok THEN getTodayDate(clock, timeSync) ELSE lastDailyFetchDate
                   /\ ev' = Ev("initialFetch", TRUE, r.ok, r.get, resp, 0, FALSE, "")
          ELSE /\ UNCHANGED <<histVars, lastDailyFetchDate>>
               /\ ev' = Quiet("initialFetch")
    /\ UNCHANGED <<eeprom, credVars, isAPMode, timeSync, schedVars, lastScheduleCheck,
                   joinVars, clock, uptime, routes, schedLog, loopVars>>

\* the end of setup() in station mode: the initial fetch
InitialFetch(resp) ==
    /\ pc = "initfetch"
    /\ pc' = "serving"
    /\ IF apiConfigured /\ timeSync
          THEN LET r == refreshFormHistory(resp)
               IN  /\ ApplyRefresh(r)
                   /\ lastDailyFetchDate' =
                          IF r.ok THEN getTodayDate(clock, timeSync) ELSE lastDailyFetchDate
                   /\ ev' = Ev("initialFetch", TRUE, r.ok, r.get, resp, 0, FALSE, "")
          ELSE /\ UNCHANGED <<histVars, lastDailyFetchDate>>
               /\ ev' = Quiet("initialFetch")
    /\ UNCHANGED <<eeprom, credVars, isAPMode, timeSync, schedVars, lastScheduleCheck,
                   joinVars, clock, uptime, routes, schedLog, loopVars>>

(***************************************************************************)
(* The HTTP handlers (web.ino).  A handler that ends in ESP.restart()      *)
(* leaves pc at "reset".                                                   *)
(***************************************************************************)
handleConnectLive(ssid, password) ==
    /\ pc = "serving" /\ routes = "ap"
    /\ wifiSSID' = ssid
    /\ wifiPassword' = password
    /\ wifiConfigured' = (Len(ssid) > 0)
    /\ eeprom' = saveWiFiCredentials(eeprom, ssid, password)
    /\ ev' = Ev("handleConnect", FALSE, FALSE, FALSE, NoResp, 200, FALSE, "html")
    /\ pc' = "connect"
    /\ UNCHANGED <<apiKey, athleteId, apiConfigured, isAPMode, timeSync,
                   schedVars, lastDailyFetchDate, lastScheduleCheck, histVars, joinVars,
                   clock, uptime, routes, schedLog, loopVars>>

\* the reply, the credentials to RAM and EEPROM, ESP.restart()
handleConnect(ssid, password) ==
    /\ pc = "serving" /\ routes = "ap"
    /\ wifiSSID' = ssid
    /\ wifiPassword' = password
    /\ eeprom' = saveWiFiCredentials(eeprom, ssid, password)
    /\ ev' = Ev("handleConnect", FALSE, FALSE, FALSE, NoResp, 200, FALSE, "html")
    /\ pc' = "reset"
    /\ UNCHANGED <<apiKey, athleteId, wifiConfigured, apiConfigured, isAPMode, timeSync,
                   schedVars, lastDailyFetchDate, lastScheduleCheck, histVars, joinVars,
                   clock, uptime, routes, schedLog, loopVars>>

\* clearAllCredentials, the reply, ESP.restart()
handleReset ==
    /\ pc = "serving" /\ routes = "station"
    /\ eeprom' = clearAllCredentials(eeprom)
    /\ wifiSSID' = STR_EMPTY /\ wifiPassword' = STR_EMPTY
    /\ apiKey' = STR_EMPTY /\ athleteId' = STR_ZERO
    /\ wifiConfigured' = FALSE /\ apiConfigured' = FALSE
    /\ scheduleHour' = 6 /\ scheduleMinute' = 0 /\ gmtOffsetHours' = -6
    /\ ev' = Ev("handleReset", FALSE, FALSE, FALSE, NoResp, 200, FALSE, "html")
    /\ pc' = "reset"
    /\ UNCHANGED <<isAPMode, timeSync, lastDailyFetchDate, lastScheduleCheck, histVars,
                   joinVars, clock, uptime, routes, schedLog, loopVars>>

handleSaveAPIOverwrite(key, athIdArg) ==
    /\ pc = "serving" /\ routes = "station"
    /\ LET newKey == key
           athId == IF Len(athIdArg) = 0 THEN STR_ZERO ELSE athIdArg
       IN  /\ apiKey' = newKey
           /\ athleteId' = athId
           /\ eeprom' = saveAPIKey(eeprom, newKey, athId)
           /\ apiConfigured' = (Len(newKey) > 0)
    /\ ev' = Ev("handleSaveAPI", FALSE, FALSE, FALSE, NoResp, 302, FALSE, "redirect")
                @@ [apikey |-> key, athleteid |-> athIdArg]
    /\ UNCHANGED <<wifiSSID, wifiPassword, wifiConfigured, isAPMode, timeSync, schedVars,
                   lastDailyFetchDate, lastScheduleCheck, histVars, joinVars, pc,
                   clock, uptime, routes, schedLog, loopVars>>

handleSaveAPI(key, athIdArg) ==
    /\ pc = "serving" /\ routes = "station"
    /\ LET newKey == IF key # STR_MASK /\ Len(key) > 0 THEN key ELSE apiKey
           athId == IF Len(athIdArg) = 0 THEN STR_ZERO ELSE athIdArg
       IN  /\ apiKey' = newKey
           /\ athleteId' = athId
           /\ eeprom' = saveAPIKey(eeprom, newKey, athId)
           /\ apiConfigured' = (Len(newKey) > 0)
    /\ ev' = Ev("handleSaveAPI", FALSE, FALSE, FALSE, NoResp, 302, FALSE, "redirect")
                @@ [apikey |-> key, athleteid |-> athIdArg]
    /\ UNCHANGED <<wifiSSID, wifiPassword, wifiConfigured, isAPMode, timeSync, schedVars,
                   lastDailyFetchDate, lastScheduleCheck, histVars, joinVars, pc,
                   clock, uptime, routes, schedLog, loopVars>>

ClampNone(x, lo, hi) == x

\* if (x < lo) x = lo; if (x > hi) x = hi;
Clamp(x, lo, hi) == IF x < lo THEN lo ELSE IF x > hi THEN hi ELSE x

\* the 24-hour hour of a 12-hour hour and its period
Hour24(hourInput, period) ==
    (Clamp(hourInput, 1, 12) % 12) + (IF period = STR_PM THEN 12 ELSE 0)

handleSaveSchedule(hourArg, minuteArg, period, tzArg, arrives) ==
    /\ pc = "serving" /\ routes = "station"
    /\ LET minuteInput == Clamp(ToInt(minuteArg), 0, 59)
           tzOffset == Clamp(ToInt(tzArg), -12, 14)
           hour24 == Hour24(ToInt(hourArg), period)
       IN  /\ scheduleHour' = hour24
           /\ scheduleMinute' = minuteInput
           /\ gmtOffsetHours' = tzOffset
           /\ clock' = setupNTPClock(clock, tzOffset, arrives)
           /\ timeSync' = setupNTPSync(clock, FALSE, arrives)
           /\ eeprom' = saveScheduleConfig(eeprom, hour24, minuteInput, tzOffset)
    /\ ev' = Ev("handleSaveSchedule", FALSE, FALSE, FALSE, NoResp, 302, FALSE, "redirect")
    /\ UNCHANGED <<credVars, isAPMode, lastDailyFetchDate, lastScheduleCheck, histVars,
                   joinVars, pc, uptime, routes, schedLog, loopVars>>

DataEndpointMarks(op, resp) ==
    /\ pc = "serving" /\ routes = "station"
    /\ IF ~apiConfigured
          THEN /\ ev' = Ev(op, FALSE, FALSE, FALSE, NoResp, 400, FALSE, "error")
               /\ UNCHANGED <<histVars, lastDailyFetchDate>>
          ELSE LET r == refreshFormHistory(resp)
               IN  /\ ApplyRefresh(r)
                   /\ lastDailyFetchDate' =
                          IF r.ok THEN getTodayDate(clock, timeSync) ELSE lastDailyFetchDate
                   /\ ev' = Ev(op, TRUE, r.ok, r.get, resp, IF r.ok THEN 200 ELSE 500, r.ok,
                               IF r.ok THEN "message" ELSE "error")
    /\ UNCHANGED <<eeprom, credVars, isAPMode, timeSync, schedVars, lastScheduleCheck,
                   joinVars, pc, clock, uptime, routes, schedLog, loopVars>>

\* handleAPIForm and handleAPIHistory differ in what they print only
DataEndpoint(op, resp) ==
    /\ pc = "serving" /\ routes = "station"
    /\ IF ~apiConfigured
          THEN /\ ev' = Ev(op, FALSE, FALSE, FALSE, NoResp, 400, FALSE, "error")
               /\ UNCHANGED histVars
          ELSE LET r == refreshFormHistory(resp)
               IN  /\ ApplyRefresh(r)
                   /\ ev' = Ev(op, TRUE, r.ok, r.get, resp, IF r.ok THEN 200 ELSE 500, r.ok,
                               IF r.ok THEN "message" ELSE "error")
    /\ UNCHANGED <<eeprom, ramVars, joinVars, pc, clock, uptime, routes, schedLog, loopVars>>

handleAPIForm(resp) == DataEndpoint("handleAPIForm", resp)
handleAPIHistory(resp) == DataEndpoint("handleAPIHistory", resp)

(***************************************************************************)
(* The route tables of setup() and the handlers that change no state.      *)
(***************************************************************************)
Route(method, path, handler) == [method |-> method, path |-> path, handler |-> handler]

\* the server.on registrations of the table setup() has chosen
RouteTable(table) ==
    IF table = "station"
    THEN {Route("GET", "/", "handleRoot"), Route("POST", "/saveapi", "handleSaveAPI"),
          Route("POST", "/saveschedule", "handleSaveSchedule"),
          Route("POST", "/reset", "handleReset"),
          Route("GET", "/api/form", "handleAPIForm"),
          Route("GET", "/api/history", "handleAPIHistory")}
    ELSE IF table = "ap"
    THEN {Route("GET", "/", "handleAPRoot"), Route("POST", "/connect", "handleConnect"),
          Route("GET", "/generate_204", "handleAPRoot"), Route("GET", "/gen_204", "handleAPRoot"),
          Route("GET", "/hotspot-detect.html", "handleAPRoot"),
          Route("GET", "/library/test/success.html", "handleAPRoot"),
          Route("GET", "/ncsi.txt", "handleAPRoot"), Route("GET", "/connecttest.txt", "handleAPRoot"),
          Route("GET", "/fwlink", "handleAPRoot"), Route("GET", "/favicon.ico", "favicon")}
    ELSE {}

\* the handler the server calls: the registered one, else the onNotFound one
RouteOf(table, method, path) ==
    LET hit == {r \in RouteTable(table) : r.method = method /\ r.path = path}
    IN  IF hit = {} THEN "handleNotFound" ELSE (CHOOSE r \in hit : TRUE).handler

handleNotFoundAlways404 == [code |-> 404, key |-> "text"]

\* handleNotFound: status and kind of the answer
handleNotFound ==
    IF isAPMode THEN [code |-> 302, key |-> "redirect"] ELSE [code |-> 404, key |-> "text"]

StaticHandlers == {"handleRoot", "handleAPRoot", "favicon", "handleNotFound"}

\* a request whose handler changes no state: the pages, the empty answer
\* to /favicon.ico and handleNotFound
ServeRequest(method, path) ==
    /\ pc = "serving"
    /\ LET handler == RouteOf(routes, method, path)
           answer == IF handler = "handleNotFound" THEN handleNotFound
                     ELSE IF handler = "favicon" THEN [code |-> 204, key |-> "text"]
                     ELSE [code |-> 200, key |-> "html"]
       IN  /\ handler \in StaticHandlers
           /\ ev' = Ev(handler, FALSE, FALSE, FALSE, NoResp, answer.code, FALSE, answer.key)
                        @@ [method |-> method, path |-> path]
    /\ UNCHANGED <<eeprom, ramVars, histVars, joinVars, pc, clock, uptime, routes, schedLog,
                   loopVars>>

(***************************************************************************)
(* The scheduler: the block of loop() that calls maybeRunScheduledRefresh  *)
(* when more than 30000 ms have passed, and maybeRunScheduledRefresh.      *)
(***************************************************************************)
TimeReachedStrict(tm) ==
    tm.tm_hour > scheduleHour \/ (tm.tm_hour = scheduleHour /\ tm.tm_min > scheduleMinute)

\* the test of the time of day against the schedule
TimeReached(tm) ==
    tm.tm_hour > scheduleHour \/ (tm.tm_hour = scheduleHour /\ tm.tm_min >= scheduleMinute)

\* whether maybeRunScheduledRefresh calls refreshFormHistory
RefreshDue(tm) == lastDailyFetchDate # FormatDate(tm) /\ TimeReached(tm)

MarkerAfterNever(today, ok) == lastDailyFetchDate

MarkerAfterAlways(today, ok) == today

\* lastDailyFetchDate after a scheduled refresh that returned ok
MarkerAfter(today, ok) == IF ok THEN today ELSE lastDailyFetchDate

maybeRunScheduledRefresh(resp) ==
    LET tm == LocalTime(clock)
        today == FormatDate(tm)
    IN  IF RefreshDue(tm)
           THEN LET r == refreshFormHistory(resp)
                IN  /\ ApplyRefresh(r)
                    /\ lastDailyFetchDate' = MarkerAfter(today, r.ok)
                    /\ schedLog' = Append(schedLog, [date |-> today, ok |-> r.ok])
                    /\ ev' = Ev("tick", TRUE, r.ok, r.get, resp, 0, FALSE, "")
           ELSE /\ UNCHANGED <<histVars, lastDailyFetchDate, schedLog>>
                /\ ev' = Quiet("tick")

Elapsed(now) == Sub32(now, lastScheduleCheck)

\* one pass of loop() at uptime sample u, apart from the handling of a
\* request: the scheduler block runs when the device is a station with an
\* API key and a synced clock
SchedulerCheck(u, resp) ==
    /\ pc = "serving"
    /\ u >= uptime
    /\ uptime' = u
    /\ IF ~isAPMode /\ apiConfigured /\ timeSync
             /\ Above(Elapsed(Millis(u)), SCHEDULE_CHECK_MS)
          THEN /\ lastScheduleCheck' = Millis(u)
               /\ maybeRunScheduledRefresh(resp)
          ELSE /\ ev' = Quiet("loop")
               /\ UNCHANGED <<lastScheduleCheck, histVars, lastDailyFetchDate, schedLog>>
    /\ UNCHANGED <<eeprom, credVars, isAPMode, timeSync, schedVars, joinVars, pc,
                   clock, routes, loopVars>>

(***************************************************************************)
(* The same operations in the steps of the single thread.  The network     *)
(* stack accepts connections at any time after server.begin(), also while  *)
(* the sketch is inside a blocking call or yield(); the sketch looks at    *)
(* them only in server.handleClient(), once per pass of loop() (medivalos  *)
(* .ino 296).  refreshFormHistory is split at the fetch, at each pass of   *)
(* its copy loop and at its end; run holds its caller, the parsed array    *)
(* and the index of the loop.                                              *)
(***************************************************************************)
MaxInbox == 2
StationRequests == {"handleRoot", "handleAPIForm", "handleAPIHistory"}

Arrive(req) ==
    /\ pc \in {"initfetch", "serving"} /\ routes = "station"
    /\ Len(inbox) < MaxInbox
    /\ inbox' = Append(inbox, req)
    /\ ev' = Quiet("arrive")
    /\ UNCHANGED <<eeprom, ramVars, histVars, joinVars, pc, clock, uptime, routes,
                   schedLog, run>>

\* refreshFormHistory from the return of a successful fetch to the
\* assignment formHistoryCount = 0
BeginCopy(owner, arr) ==
    /\ run' = [owner |-> owner, arr |-> arr, i |-> 0]
    /\ formHistoryCount' = 0
    /\ UNCHANGED <<formHistory, currentForm, currentCTL, currentATL, lastUpdateTime>>

DispatchRequestReentrant(resp) ==
    /\ pc = "serving"
    /\ inbox # <<>>
    /\ inbox' = Tail(inbox)
    /\ LET req == Head(inbox)
           f == fetchWellnessJson(resp)
       IN  IF req = "handleRoot" \/ run.owner # "none"
              THEN /\ ev' = Ev("handleRoot", FALSE, FALSE, FALSE, NoResp, 200, FALSE, "html")
                   /\ UNCHANGED <<histVars, run>>
           ELSE IF ~apiConfigured
              THEN /\ ev' = Ev(req, FALSE, FALSE, FALSE, NoResp, 400, FALSE, "error")
                   /\ UNCHANGED <<histVars, run>>
           ELSE IF ~f.ok
              THEN /\ ev' = Ev(req, TRUE, FALSE, f.get, resp, 500, FALSE, "error")
                   /\ UNCHANGED <<histVars, run>>
           ELSE /\ ev' = Ev(req, TRUE, FALSE, TRUE, resp, 0, FALSE, "")
                /\ BeginCopy(req, f.arr)
    /\ UNCHANGED <<eeprom, ramVars, joinVars, pc, clock, uptime, routes, schedLog>>

\* server.handleClient() with a request waiting: the handler is entered.
\* handleRoot reads the snapshot; a data endpoint runs up to the copy loop.
DispatchRequest(resp) ==
    /\ pc = "serving"
    /\ run.owner = "none"
    /\ inbox # <<>>
    /\ inbox' = Tail(inbox)
    /\ LET req == Head(inbox)
           f == fetchWellnessJson(resp)
       IN  IF req = "handleRoot"
              THEN /\ ev' = Ev("handleRoot", FALSE, FALSE, FALSE, NoResp, 200, FALSE, "html")
                   /\ UNCHANGED <<histVars, run>>
           ELSE IF ~apiConfigured
              THEN /\ ev' = Ev(req, FALSE, FALSE, FALSE, NoResp, 400, FALSE, "error")
                   /\ UNCHANGED <<histVars, run>>
           ELSE IF ~f.ok
              THEN /\ ev' = Ev(req, TRUE, FALSE, f.get, resp, 500, FALSE, "error")
                   /\ UNCHANGED <<histVars, run>>
           ELSE /\ ev' = Ev(req, TRUE, FALSE, TRUE, resp, 0, FALSE, "")
                /\ BeginCopy(req, f.arr)
    /\ UNCHANGED <<eeprom, ramVars, joinVars, pc, clock, uptime, routes, schedLog>>

\* the scheduler block of loop() when a refresh is due
TickStart(u, resp) ==
    /\ pc = "serving"
    /\ run.owner = "none"
    /\ u >= uptime
    /\ uptime' = u
    /\ ~isAPMode /\ apiConfigured /\ timeSync
    /\ Above(Elapsed(Millis(u)), SCHEDULE_CHECK_MS)
    /\ RefreshDue(LocalTime(clock))
    /\ lastScheduleCheck' = Millis(u)
    /\ LET f == fetchWellnessJson(resp)
       IN  IF ~f.ok
              THEN /\ ev' = Ev("tick", TRUE, FALSE, f.get, resp, 0, FALSE, "")
                   /\ schedLog' = Append(schedLog, [date |-> FormatDate(LocalTime(clock)),
                                                     ok |-> FALSE])
                   /\ UNCHANGED <<histVars, run>>
              ELSE /\ ev' = Ev("tick", TRUE, FALSE, TRUE, resp, 0, FALSE, "")
                   /\ BeginCopy("tick", f.arr)
                   /\ UNCHANGED schedLog
    /\ UNCHANGED <<eeprom, credVars, isAPMode, timeSync, schedVars, lastDailyFetchDate,
                   joinVars, pc, clock, routes, inbox>>

\* the initial fetch of setup() when it is not skipped
InitialFetchStart(resp) ==
    /\ pc = "initfetch"
    /\ run.owner = "none"
    /\ apiConfigured /\ timeSync
    /\ LET f == fetchWellnessJson(resp)
       IN  IF ~f.ok
              THEN /\ ev' = Ev("initialFetch", TRUE, FALSE, f.get, resp, 0, FALSE, "")
                   /\ pc' = "serving"
                   /\ UNCHANGED <<histVars, run>>
              ELSE /\ ev' = Ev("initialFetch", TRUE, FALSE, TRUE, resp, 0, FALSE, "")
                   /\ BeginCopy("initialFetch", f.arr)
                   /\ UNCHANGED pc
    /\ UNCHANGED <<eeprom, ramVars, joinVars, clock, uptime, routes, schedLog, inbox>>

\* one pass of the copy loop of refreshFormHistory
CopyEntry ==
    /\ run.owner # "none"
    /\ run.i < Len(run.arr) /\ formHistoryCount < FORM_HISTORY_DAYS
    /\ formHistory' = [formHistory EXCEPT ![formHistoryCount] = FormEntryOf(run.arr[run.i + 1])]
    /\ formHistoryCount' = formHistoryCount + 1
    /\ run' = [run EXCEPT !.i = run.i + 1]
    /\ ev' = Quiet("copy")
    /\ UNCHANGED <<eeprom, ramVars, currentForm, currentCTL, currentATL, lastUpdateTime,
                   joinVars, pc, clock, uptime, routes, schedLog, inbox>>

\* the end of refreshFormHistory after the copy loop, and the rest of its
\* caller
RefreshEnd ==
    /\ run.owner # "none"
    /\ ~(run.i < Len(run.arr) /\ formHistoryCount < FORM_HISTORY_DAYS)
    /\ run' = NoRun
    /\ LET ok == formHistoryCount # 0
           latest == formHistory[SnapshotIndex(formHistoryCount)]
           today == FormatDate(LocalTime(clock))
       IN  /\ IF ok
                 THEN /\ currentCTL' = latest.ctl
                      /\ currentATL' = latest.atl
                      /\ currentForm' = latest.form
                      /\ lastUpdateTime' = latest.date
                 ELSE UNCHANGED <<currentForm, currentCTL, currentATL, lastUpdateTime>>
           /\ IF run.owner = "tick"
                 THEN /\ lastDailyFetchDate' = MarkerAfter(today, ok)
                      /\ schedLog' = Append(schedLog, [date |-> today, ok |-> ok])
                      /\ ev' = Ev("tick", TRUE, ok, TRUE, NoResp, 0, FALSE, "")
                      /\ UNCHANGED pc
              ELSE IF run.owner = "initialFetch"
                 THEN /\ lastDailyFetchDate' =
                             IF ok THEN getTodayDate(clock, timeSync) ELSE lastDailyFetchDate
                      /\ ev' = Ev("initialFetch", TRUE, ok, TRUE, NoResp, 0, FALSE, "")
                      /\ pc' = "serving"
                      /\ UNCHANGED schedLog
              ELSE /\ ev' = Ev(run.owner, TRUE, ok, TRUE, NoResp, IF ok THEN 200 ELSE 500, ok,
                               IF ok THEN "message" ELSE "error")
                   /\ UNCHANGED <<lastDailyFetchDate, pc, schedLog>>
    /\ UNCHANGED <<eeprom, credVars, isAPMode, timeSync, schedVars, lastScheduleCheck,
                   formHistory, formHistoryCount, joinVars, clock, uptime, routes, inbox>>

(***************************************************************************)
(* The world: real time passes.                                            *)
(***************************************************************************)
MaxDay == 2
DaySamples == << <<11, 59>>, <<12, 0>> >>
MinuteOfDay(h, m) == h * 60 + m

AdvanceClock(d, h, m) ==
    /\ pc = "serving"
    /\ d >= clock.day /\ d <= MaxDay
    /\ d > clock.day \/ MinuteOfDay(h, m) > MinuteOfDay(clock.hour, clock.min)
    /\ clock' = [clock EXCEPT !.day = d, !.hour = h, !.min = m]
    /\ ev' = Quiet("time")
    /\ UNCHANGED <<eeprom, ramVars, histVars, joinVars, pc, uptime, routes, schedLog, loopVars>>

(***************************************************************************)
(* Power-on: the globals at their initialisers, the EEPROM as given.       *)
(***************************************************************************)
PowerOn(e, c) ==
    /\ eeprom = e
    /\ clock = c
    /\ pc = "boot"
    /\ wifiSSID = STR_EMPTY /\ wifiPassword = STR_EMPTY
    /\ apiKey = STR_EMPTY /\ athleteId = STR_ZERO
    /\ wifiConfigured = FALSE /\ apiConfigured = FALSE
    /\ isAPMode = FALSE /\ timeSync = FALSE
    /\ currentForm = 0 /\ currentCTL = 0 /\ currentATL = 0
    /\ lastUpdateTime = STR_NEVER
    /\ scheduleHour = 6 /\ scheduleMinute = 0 /\ gmtOffsetHours = -6
    /\ lastDailyFetchDate = STR_EMPTY
    /\ formHistory = EmptyHistory /\ formHistoryCount = 0
    /\ lastScheduleCheck = <<0, 0>>
    /\ retry = 0 /\ attempts = 0 /\ lastStatus = "none"
    /\ uptime = 1
    /\ routes = "none"
    /\ radioLog = <<>>
    /\ sawConnected = FALSE
    /\ connectResult = "none"
    /\ ev = Quiet("startup")
    /\ schedLog = <<>>
    /\ inbox = <<>>
    /\ run = NoRun

ClockAtTime(day, h, m) == [set |-> FALSE, day |-> day, hour |-> h, min |-> m, tz |-> 0]
ClockAt(day, k) == ClockAtTime(day, DaySamples[k][1], DaySamples[k][2])

STR_SSID == <<97, 98>>          \* "ab"
STR_PASS == <<112, 119>>        \* "pw"
STR_KEY == <<107>>              \* "k"

(***************************************************************************)
(* Spec: the device from the factory state, through any number of boots:   *)
(* the join loop against a radio that may report any status at any read,   *)
(* the access-point setup page, and the reset from station mode.           *)
(***************************************************************************)
ConnectSSIDs == {STR_EMPTY, STR_SSID}
ConnectPasswords == {STR_EMPTY, STR_PASS}

Init == PowerOn(FactoryEEPROM, ClockAt(1, 1))

Next ==
    \/ \E kept \in BOOLEAN : Startup(kept)
    \/ LoadCredentials
    \/ ConnectEntry
    \/ AttemptBegin
    \/ \E st \in RadioStatuses : PollCond(st)
    \/ \E st \in RadioStatuses : PollBody(st)
    \/ \E st \in RadioStatuses : AfterPoll(st)
    \/ \E st \in RadioStatuses : AttemptFailed(st)
    \/ StartAPMode
    \/ \E arrives \in BOOLEAN : SetupStation(arrives)
    \/ InitialFetch(NoResp)
    \/ \E ssid \in ConnectSSIDs, password \in ConnectPasswords : handleConnect(ssid, password)
    \/ handleReset

Spec == Init /\ [][Next]_vars

(***************************************************************************)
(* The remote service's answers.  A record of day k carries the date of    *)
(* that day as its id and ctl/atl in tenths; the records of an array are   *)
(* in chronological order, oldest first.                                   *)
(***************************************************************************)
MaxRecords == 31
DateString(k) ==
    LET d == DateOfDay(k)
    IN  FormatDate([tm_year |-> d[1] - 1900, tm_mon |-> d[2] - 1, tm_mday |-> d[3]])
Rec(k) == Obj(DateString(k), 424 + 7 * (k - 1), 386 + 9 * (k - 1))
Elements(n) ==
    IF n = 0 THEN <<>>
    ELSE [i \in 1..(2 * n - 1) |-> IF i % 2 = 1 THEN Rec((i + 1) \div 2) ELSE Tok("comma")]
ArrayBody(n) == <<Tok("lb")>> \o Elements(n) \o <<Tok("rb")>>
Resp(code, body) == [code |-> code, body |-> body]

GoodResp == Resp(HTTP_CODE_OK, ArrayBody(1))
FailResp == Resp(500, <<>>)
SchedResponses == {GoodResp, FailResp}

ArrayLens == {0, 1, 2, FORM_HISTORY_DAYS, MaxRecords}
RefreshResponses ==
    {Resp(HTTP_CODE_OK, ArrayBody(n)) : n \in ArrayLens} \cup
    {Resp(HTTP_CODE_OK, <<Tok("junk")>> \o ArrayBody(2) \o <<Tok("junk")>>),
     Resp(HTTP_CODE_OK, <<Tok("lb"), Rec(1), Tok("junk"), Tok("rb")>>),
     Resp(HTTP_CODE_OK, <<Tok("lb"), Rec(1)>>),
     Resp(HTTP_CODE_OK, <<Tok("junk")>>),
     Resp(HTTP_CODE_OK, <<>>),
     Resp(HTTP_CODE_OK, <<Tok("obj")>>),
     Resp(HTTP_CODE_OK, <<Tok("lb"), Tok("obj"), Tok("rb")>>),
     Resp(HTTP_CODE_OK, <<Tok("lb"), Obj(DateString(1), -25, 5), Tok("rb")>>),
     Resp(500, ArrayBody(1)),
     Resp(404, <<Tok("junk")>>),
     Resp(-1, <<>>)}

\* the EEPROM after the setup page, the API form and the schedule form
ConfiguredEEPROM ==
    saveAPIKey(saveWiFiCredentials(FactoryEEPROM, STR_SSID, STR_PASS), STR_KEY, STR_ZERO)
ScheduledEEPROM(h, m, tz) == saveScheduleConfig(ConfiguredEEPROM, h, m, tz)

(***************************************************************************)
(* The boot of a configured device whose network answers at the first      *)
(* status read.                                                            *)
(***************************************************************************)
BootConnected ==
    \/ LoadCredentials
    \/ ConnectEntry
    \/ AttemptBegin
    \/ PollCond(WL_CONNECTED)
    \/ AfterPoll(WL_CONNECTED)

(***************************************************************************)
(* SpecDue: one boot of a configured device, any stored schedule and any   *)
(* time of day, the scheduler ticks and the passing of a whole day.        *)
(***************************************************************************)
DueHours == 0..23
DueMinutes == {0, 30, 59}
ScheduleHours == {0, 6, 23}
ScheduleMinutes == {0, 30}

InitDue ==
    \E h \in DueHours, m \in DueMinutes, sh \in ScheduleHours, sm \in ScheduleMinutes :
        PowerOn(ScheduledEEPROM(sh, sm, -6), ClockAtTime(1, h, m))

NextDue ==
    \/ BootConnected
    \/ SetupStation(TRUE)
    \/ \E resp \in SchedResponses : InitialFetch(resp)
    \/ \E u \in 1..MaxUptime, resp \in SchedResponses : SchedulerCheck(u, resp)
    \/ AdvanceClock(clock.day + 1, clock.hour, clock.min)

SpecDue == InitDue /\ [][NextDue]_vars

(***************************************************************************)
(* SpecSched: one boot of a configured device: scheduler ticks, manual     *)
(* refreshes, schedule and timezone saves, and time passing over days.     *)
(* /api/form stands for both data endpoints, which change the state alike. *)
(***************************************************************************)
STR_12 == <<49, 50>>            \* "12"
STR_6 == <<54>>                 \* "6"
STR_TZ_WEST == <<45, 54>>       \* "-6"
STR_TZ_EAST == <<49, 53>>       \* "15"

InitSched == \E k \in DOMAIN DaySamples : PowerOn(ConfiguredEEPROM, ClockAt(1, k))

NextSched ==
    \/ BootConnected
    \/ \E arrives \in BOOLEAN : SetupStation(arrives)
    \/ \E resp \in SchedResponses : InitialFetch(resp)
    \/ \E u \in 1..MaxUptime, resp \in SchedResponses : SchedulerCheck(u, resp)
    \/ \E resp \in SchedResponses : handleAPIForm(resp)
    \/ \E hourArg \in {STR_12, STR_6}, tzArg \in {STR_TZ_WEST, STR_TZ_EAST} :
           handleSaveSchedule(hourArg, STR_ZERO, STR_AM, tzArg, TRUE)
    \/ \E d \in 1..MaxDay, k \in DOMAIN DaySamples :
           AdvanceClock(d, DaySamples[k][1], DaySamples[k][2])

SpecSched == InitSched /\ [][NextSched]_vars

(***************************************************************************)
(* SpecRefresh: one boot of a configured device and the refreshes the      *)
(* browser asks for, against every kind of answer of the remote service.   *)
(***************************************************************************)
InitRefresh == PowerOn(ConfiguredEEPROM, ClockAt(1, 2))

NextRefresh ==
    \/ BootConnected
    \/ \E arrives \in BOOLEAN : SetupStation(arrives)
    \/ \E resp \in RefreshResponses : InitialFetch(resp)
    \/ \E resp \in RefreshResponses : handleAPIForm(resp)
    \/ \E resp \in RefreshResponses : handleAPIHistory(resp)

SpecRefresh == InitRefresh /\ [][NextRefresh]_vars

(***************************************************************************)
(* SpecLife: the device from the factory state through any number of       *)
(* boots, with every request it serves: the setup page, the API form, the  *)
(* schedule form, the data endpoints and the reset, and the passes of      *)
(* loop().  The radio either connects or reports a failed association.     *)
(***************************************************************************)
LifeStatuses == {WL_CONNECTED, WL_CONNECT_FAILED}
STR_SSID_32 == [i \in 1..32 |-> 97]        \* an SSID of the greatest legal length
LifeSSIDs == {STR_EMPTY, STR_SSID, STR_SSID_32}

\* the supply is cut while the device serves: execution starts over at the
\* reset vector with the EEPROM as it is
PowerCycle ==
    /\ pc = "serving"
    /\ pc' = "reset"
    /\ ev' = Quiet("powerCycle")
    /\ UNCHANGED <<eeprom, ramVars, histVars, joinVars, clock, uptime, routes, schedLog, loopVars>>

InitLife == PowerOn(FactoryEEPROM, ClockAt(1, 2))

NextLife ==
    \/ \E kept \in BOOLEAN : Startup(kept)
    \/ LoadCredentials
    \/ ConnectEntry
    \/ AttemptBegin
    \/ \E st \in LifeStatuses : PollCond(st)
    \/ \E st \in LifeStatuses : PollBody(st)
    \/ \E st \in LifeStatuses : AfterPoll(st)
    \/ \E st \in LifeStatuses : AttemptFailed(st)
    \/ StartAPMode
    \/ \E arrives \in BOOLEAN : SetupStation(arrives)
    \/ \E resp \in SchedResponses : InitialFetch(resp)
    \/ \E ssid \in LifeSSIDs : handleConnect(ssid, STR_PASS)
    \/ handleReset
    \/ \E key \in {STR_EMPTY, STR_KEY} : handleSaveAPI(key, STR_EMPTY)
    \/ \E arrives \in BOOLEAN : handleSaveSchedule(STR_12, STR_ZERO, STR_AM, STR_TZ_EAST, arrives)
    \/ \E resp \in SchedResponses : handleAPIForm(resp)
    \/ \E resp \in SchedResponses : handleAPIHistory(resp)
    \/ \E u \in 1..MaxUptime, resp \in SchedResponses : SchedulerCheck(u, resp)
    \/ PowerCycle

SpecLife == InitLife /\ [][NextLife]_vars

(***************************************************************************)
(* SpecSchedule: the schedule settings over boots, resets, power cycles    *)
(* and /saveschedule requests whose arguments are any text: numbers below, *)
(* inside and above each range, an empty argument and text that is not a   *)
(* number.                                                                 *)
(***************************************************************************)
\* "-1", "0", "", "x7", "6", "11", "12", "13", "99999"
HourArgs == {<<45, 49>>, STR_ZERO, STR_EMPTY, <<120, 55>>, STR_6, <<49, 49>>, STR_12,
             <<49, 51>>, <<57, 57, 57, 57, 57>>}
\* "-1", "", "30", "60", "99999"
MinuteArgs == {<<45, 49>>, STR_EMPTY, <<51, 48>>, <<54, 48>>, <<57, 57, 57, 57, 57>>}
PeriodArgs == {STR_AM, STR_PM, STR_EMPTY}
\* "-13", "-12", "x7", "15", "99999"
TzArgs == {<<45, 49, 51>>, <<45, 49, 50>>, <<120, 55>>, STR_TZ_EAST, <<57, 57, 57, 57, 57>>}

InitSchedule == PowerOn(FactoryEEPROM, ClockAt(1, 2))

NextSchedule ==
    \/ \E kept \in BOOLEAN : Startup(kept)
    \/ BootConnected
    \/ StartAPMode
    \/ SetupStation(TRUE)
    \/ InitialFetch(NoResp)
    \/ handleConnect(STR_SSID, STR_PASS)
    \/ \E h \in HourArgs, m \in MinuteArgs, period \in PeriodArgs, tz \in TzArgs :
           handleSaveSchedule(h, m, period, tz, TRUE)
    \/ handleReset
    \/ PowerCycle

SpecSchedule == InitSchedule /\ [][NextSchedule]_vars

(***************************************************************************)
(* SpecPersist: a configured device boots, receives one /saveschedule with *)
(* any hour of the 12-hour clock, either period and any minute at each end *)
(* of the offset range, or with any offset of the range at midnight, loses *)
(* power and boots again.                                                  *)
(***************************************************************************)
HourTexts == {DecInt(h) : h \in 1..12}
MinuteTexts == {DecInt(m) : m \in 0..59}
TzTexts == {DecInt(t) : t \in -12..14}

InitPersist == PowerOn(ConfiguredEEPROM, ClockAt(1, 2))

NextPersist ==
    \/ \E kept \in BOOLEAN : Startup(kept)
    \/ BootConnected
    \/ SetupStation(TRUE)
    \/ InitialFetch(FailResp)
    \/ /\ eeprom = ConfiguredEEPROM
       /\ \/ \E h \in HourTexts, m \in MinuteTexts, period \in {STR_AM, STR_PM},
                tz \in {DecInt(-12), DecInt(14)} : handleSaveSchedule(h, m, period, tz, TRUE)
          \/ \E tz \in TzTexts : handleSaveSchedule(STR_12, STR_ZERO, STR_AM, tz, TRUE)
    \/ PowerCycle

SpecPersist == InitPersist /\ [][NextPersist]_vars

(***************************************************************************)
(* SpecLoop: one boot of a configured station in the steps of its thread,  *)
(* with requests arriving at any moment, also in the middle of a refresh.  *)
(***************************************************************************)
LoopResponses == {FailResp, Resp(HTTP_CODE_OK, ArrayBody(0)), Resp(HTTP_CODE_OK, ArrayBody(2))}

InitLoop == \E k \in DOMAIN DaySamples : PowerOn(ConfiguredEEPROM, ClockAt(1, k))

NextLoop ==
    \/ BootConnected
    \/ SetupStation(TRUE)
    \/ \E req \in StationRequests : Arrive(req)
    \/ \E resp \in LoopResponses : InitialFetchStart(resp)
    \/ \E resp \in LoopResponses : DispatchRequest(resp)
    \/ \E u \in 1..MaxUptime, resp \in LoopResponses : TickStart(u, resp)
    \/ CopyEntry
    \/ RefreshEnd

SpecLoop == InitLoop /\ [][NextLoop]_vars

(***************************************************************************)
(* SpecRoutes: requests for registered and unregistered paths, with either *)
(* method, to an access point and to a station.                            *)
(***************************************************************************)
RequestMethods == {"GET", "POST"}
RequestPaths == {"/", "/connect", "/generate_204", "/gen_204", "/hotspot-detect.html",
                 "/library/test/success.html", "/ncsi.txt", "/connecttest.txt", "/fwlink",
                 "/favicon.ico", "/saveapi", "/saveschedule", "/reset", "/api/form",
                 "/api/history", "/index.html", "/canonical.html"}

InitRoutes == PowerOn(FactoryEEPROM, ClockAt(1, 2))

NextRoutes ==
    \/ Startup(TRUE)
    \/ BootConnected
    \/ StartAPMode
    \/ SetupStation(TRUE)
    \/ InitialFetch(NoResp)
    \/ handleConnect(STR_SSID, STR_PASS)
    \/ handleReset
    \/ \E method \in RequestMethods, path \in RequestPaths : ServeRequest(method, path)

SpecRoutes == InitRoutes /\ [][NextRoutes]_vars

(***************************************************************************)
(* SpecBoot: setup() from power-on to the serving loop, on a factory and   *)
(* on a configured EEPROM, with setupNTP in steps, a radio that reports    *)
(* any status at any read and a time source that answers at any poll or    *)
(* never.  The thread keeps running: weak fairness of its steps.           *)
(***************************************************************************)
InitBoot == \E e \in {FactoryEEPROM, ConfiguredEEPROM} : PowerOn(e, ClockAt(1, 2))

NextBoot ==
    \/ LoadCredentials
    \/ ConnectEntry
    \/ AttemptBegin
    \/ \E st \in RadioStatuses : PollCond(st)
    \/ \E st \in RadioStatuses : PollBody(st)
    \/ \E st \in RadioStatuses : AfterPoll(st)
    \/ \E st \in RadioStatuses : AttemptFailed(st)
    \/ StartAPMode
    \/ NtpConfig
    \/ \E arrives \in BOOLEAN : NtpPoll(arrives)
    \/ NtpDone
    \/ \E resp \in SchedResponses : InitialFetch(resp)

SpecBoot == InitBoot /\ [][NextBoot]_vars /\ WF_vars(NextBoot)

(***************************************************************************)
(* Observations on the radio log of the current boot.                      *)
(***************************************************************************)
BeginIndexes == {i \in DOMAIN radioLog : radioLog[i].op = "begin"}
BeginCalls == Cardinality(BeginIndexes)
IsMode(i, role) == radioLog[i].op = "mode" /\ radioLog[i].arg = role
\* the last WiFi.begin before position i, 0 when there is none
PrevBegin(i) ==
    LET earlier == {j \in BeginIndexes : j < i}
    IN  IF earlier = {} THEN 0 ELSE CHOOSE j \in earlier : \A k \in earlier : k <= j
\* a full radio reset (off, pause, on as station) lies between the previous
\* WiFi.begin and position i
ResetBefore(i) ==
    \E j \in DOMAIN radioLog :
        /\ PrevBegin(i) < j /\ j + 2 < i
        /\ IsMode(j, "WIFI_OFF")
        /\ radioLog[j + 1].op = "delay"
        /\ IsMode(j + 2, "WIFI_STA")
StoredSSID == readStringFromEEPROM(eeprom, EEPROM_WIFI_SSID_ADDR, EEPROM_WIFI_SSID_LEN)
StoredPassword == readStringFromEEPROM(eeprom, EEPROM_WIFI_PASS_ADDR, EEPROM_WIFI_PASS_LEN)

\* C1: when no status read of the boot reports Connected, connectToWiFi
\* (called with a non-empty SSID) has called WiFi.begin exactly 3 times when
\* it returns, it returns false, and setup() then runs startAPMode: the
\* device serves in access-point mode.  WiFi.begin is never called a 4th time.
C1_ThreeAttemptsThenAP ==
    /\ BeginCalls <= 3
    /\ (connectResult # "none" /\ Len(wifiSSID) > 0 /\ ~sawConnected)
          => (connectResult = "false" /\ BeginCalls = 3)
    /\ (pc = "serving" /\ connectResult = "false")
          => /\ isAPMode
             /\ routes = "ap"
             /\ \E i \in DOMAIN radioLog : IsMode(i, "WIFI_AP")

\* C1 witness: a boot whose reads never reported Connected made its three
\* attempts and now serves as access point
C1_Witness ==
    /\ pc = "serving" /\ connectResult = "false" /\ ~sawConnected
    /\ BeginCalls = 3 /\ isAPMode /\ Len(wifiSSID) > 0

\* C2: while a boot runs on an EEPROM whose configured flag is not 1 or whose
\* SSID slot is empty, WiFi.begin is not called, the radio is neither
\* disconnected nor reset for a join, connectToWiFi is not run, and the
\* device ends up serving in access-point mode.
C2_NoJoinWithoutSSID ==
    (pc # "reset" /\ (eeprom[EEPROM_CONFIGURED_FLAG_ADDR] # 1 \/ StoredSSID = STR_EMPTY))
        => /\ BeginCalls = 0
           /\ \A i \in DOMAIN radioLog :
                 /\ radioLog[i].op # "disconnect"
                 /\ ~IsMode(i, "WIFI_OFF")
                 /\ ~IsMode(i, "WIFI_STA")
           /\ connectResult = "none"
           /\ pc = "serving" => (isAPMode /\ routes = "ap")

\* C2 witness: the flag is set, the stored SSID is empty (a password is
\* stored), and the device serves as access point
C2_Witness ==
    /\ pc = "serving" /\ isAPMode
    /\ eeprom[EEPROM_CONFIGURED_FLAG_ADDR] = 1
    /\ StoredSSID = STR_EMPTY /\ StoredPassword # STR_EMPTY

Today == FormatDate(LocalTime(clock))
NowHM == <<LocalTime(clock).tm_hour, LocalTime(clock).tm_min>>
\* the order of (hour, minute) pairs: a is at or after b
LexAtLeast(a, b) == a[1] > b[1] \/ (a[1] = b[1] /\ a[2] >= b[2])
\* the last scheduled refresh started in this boot
LastSched == schedLog[Len(schedLog)]
\* the document the last answer parses to
DocOf(resp) == deserializeJson(TrimResponse(resp.body))
IsEmptyArray(resp) ==
    /\ resp.code = HTTP_CODE_OK
    /\ ~DocOf(resp).error /\ DocOf(resp).isArray /\ DocOf(resp).elems = <<>>
BadAnswer(resp) == resp.code # HTTP_CODE_OK \/ DocOf(resp).error

\* C4: at every scheduler tick, a refresh is started exactly when
\* lastDailyFetchDate differs from today's local date and the local
\* (hour, minute) is at or after (scheduleHour, scheduleMinute) in
\* lexicographic order, whatever the hour, minute, schedule and marker.
C4_DueDecision ==
    [][ev'.op = "tick" =>
          (ev'.started <=>
              (lastDailyFetchDate # Today
                  /\ LexAtLeast(NowHM, <<scheduleHour, scheduleMinute>>)))]_vars

\* a tick started a refresh at the very minute of the schedule
C4_Witness ==
    /\ ev.op = "tick" /\ ev.started /\ ~ev.ok
    /\ NowHM = <<scheduleHour, scheduleMinute>>
    /\ lastDailyFetchDate # Today
    /\ lastDailyFetchDate # STR_EMPTY

\* C5: within one boot, no two scheduled refreshes that succeeded carry the
\* same calendar date, over any sequence of ticks, refresh outcomes, manual
\* refreshes and schedule/timezone saves.
C5_OncePerDate ==
    \A i, j \in DOMAIN schedLog :
        (i < j /\ schedLog[i].ok /\ schedLog[j].ok) => schedLog[i].date # schedLog[j].date

\* C6: a scheduled refresh that succeeds sets lastDailyFetchDate to today; one
\* that fails leaves it as it was, and the next tick on the same date with
\* the time at or after the schedule starts a refresh again.
C6_MarkerFollowsOutcome ==
    [][ev'.op = "tick" =>
          /\ (ev'.started /\ ev'.ok) => lastDailyFetchDate' = Today
          /\ (ev'.started /\ ~ev'.ok) => lastDailyFetchDate' = lastDailyFetchDate
          /\ (schedLog # <<>> /\ ~LastSched.ok /\ LastSched.date = Today
                  /\ TimeReached(LocalTime(clock))) => ev'.started]_vars

\* a scheduled refresh failed, and the retry on the same date succeeded
C6_Witness ==
    /\ ev.op = "tick" /\ ev.started /\ ev.ok
    /\ Len(schedLog) >= 2
    /\ ~schedLog[Len(schedLog) - 1].ok
    /\ schedLog[Len(schedLog) - 1].date = LastSched.date
    /\ lastDailyFetchDate = LastSched.date

\* C7: once a scheduled refresh has succeeded for date D, a tick on date D
\* starts no refresh, and a tick on another date (the next day) with the
\* time at or after the schedule starts one.
C7_OnceThenNextDay ==
    [][(ev'.op = "tick" /\ schedLog # <<>> /\ LastSched.ok) =>
          /\ Today = LastSched.date => ~ev'.started
          /\ (Today # LastSched.date /\ TimeReached(LocalTime(clock))) => ev'.started]_vars

\* with the schedule of the factory, a success on day 1, then the first
\* refresh of day 2
C7_Witness ==
    /\ ev.op = "tick" /\ ev.started
    /\ scheduleHour = 6 /\ scheduleMinute = 0 /\ gmtOffsetHours = -6
    /\ Len(schedLog) = 2
    /\ schedLog[1].ok /\ schedLog[1].date = DateString(1)
    /\ schedLog[2].date = DateString(2)

\* C8: a refresh that receives an empty JSON array while the cached history
\* is not empty returns failure and leaves formHistoryCount, every FormEntry
\* and the current snapshot unchanged.
C8_EmptyArrayKeepsHistory ==
    [][(ev'.started /\ IsEmptyArray(ev'.resp) /\ formHistoryCount > 0) =>
          (~ev'.ok /\ UNCHANGED histVars)]_vars

\* C9: when the remote call answers with a status other than 200 or with a
\* body that does not parse, refreshFormHistory returns failure and leaves the
\* history, the count and the snapshot unchanged, and /api/form answers with
\* success=false and an error string.
C9_FailedFetchKeepsState ==
    [][(ev'.started /\ BadAnswer(ev'.resp)) =>
          /\ ~ev'.ok /\ UNCHANGED histVars
          /\ ev'.op = "handleAPIForm" =>
                 (ev'.code = 500 /\ ~ev'.success /\ ev'.key = "error")]_vars

\* /api/form got a 200 whose body does not parse, with two entries cached
C9_Witness ==
    /\ ev.op = "handleAPIForm" /\ ev.started
    /\ ev.resp.code = HTTP_CODE_OK /\ DocOf(ev.resp).error
    /\ ev.code = 500 /\ ~ev.success
    /\ formHistoryCount = 2

\* C10: when the remote returns more than 30 records in chronological order,
\* the retained history is the 30 most recent of them, oldest first.
C10_KeepsMostRecent ==
    [][(ev'.started /\ ev'.ok /\ Len(DocOf(ev'.resp).elems) > FORM_HISTORY_DAYS) =>
          /\ formHistoryCount' = FORM_HISTORY_DAYS
          /\ \A i \in 0..(FORM_HISTORY_DAYS - 1) :
                 formHistory'[i] =
                     FormEntryOf(DocOf(ev'.resp).elems[
                         Len(DocOf(ev'.resp).elems) - FORM_HISTORY_DAYS + i + 1])]_vars

\* C11: in every reachable state formHistoryCount is in 0..30 and the slots
\* of formHistory are those of indexes 0..29: no refresh writes a slot
\* outside them, however many records the remote service returns.
C11_HistoryBounded ==
    /\ formHistoryCount \in 0..FORM_HISTORY_DAYS
    /\ DOMAIN formHistory = 0..(FORM_HISTORY_DAYS - 1)

\* a refresh took an answer of more than 30 records and filled the history
C11_Witness ==
    /\ ev.started /\ ev.ok
    /\ Len(DocOf(ev.resp).elems) > FORM_HISTORY_DAYS
    /\ formHistoryCount = FORM_HISTORY_DAYS

\* the integer nearest to x tenths, a half going away from zero
Nearest(x) ==
    CHOOSE n \in ((x \div 10) - 1)..((x \div 10) + 1) :
        \/ 10 * n - x < 5 /\ x - 10 * n < 5
        \/ 10 * n - x = 5 /\ x >= 0
        \/ x - 10 * n = 5 /\ x < 0
RawCtl(e) == IF e.hasCtl THEN e.ctl ELSE 0
RawAtl(e) == IF e.hasAtl THEN e.atl ELSE 0

\* the first n slots of hist hold the records of arr, each value rounded
\* before the subtraction
RoundedThenSubtracted(arr, hist, n) ==
    \A i \in 0..(n - 1) :
        /\ hist[i].ctl = Nearest(RawCtl(arr[i + 1]))
        /\ hist[i].atl = Nearest(RawAtl(arr[i + 1]))
        /\ hist[i].form = Nearest(RawCtl(arr[i + 1])) - Nearest(RawAtl(arr[i + 1]))

\* C12: every record a refresh stores has ctl = round(raw ctl),
\* atl = round(raw atl) and form = round(raw ctl) - round(raw atl): each
\* value is rounded to nearest before the subtraction.
C12_RoundThenSubtract ==
    [][(ev'.started /\ ev'.ok) =>
          RoundedThenSubtracted(DocOf(ev'.resp).elems, formHistory', formHistoryCount')]_vars

\* (42.4, 38.6) was stored as (42, 39, 3) and (43.1, 39.5) as (43, 40, 3),
\* where rounding the difference 3.8 would have given 4
C12_Witness ==
    /\ ev.started /\ ev.ok /\ formHistoryCount >= 2
    /\ RawCtl(DocOf(ev.resp).elems[1]) = 424 /\ RawAtl(DocOf(ev.resp).elems[1]) = 386
    /\ RawCtl(DocOf(ev.resp).elems[2]) = 431 /\ RawAtl(DocOf(ev.resp).elems[2]) = 395
    /\ formHistory[0].ctl = 42 /\ formHistory[0].atl = 39 /\ formHistory[0].form = 3
    /\ formHistory[1].ctl = 43 /\ formHistory[1].atl = 40 /\ formHistory[1].form = 3
    /\ Nearest(424 - 386) = 4

\* C13: between operations, when formHistoryCount > 0 the current snapshot
\* is the last history element: currentCTL, currentATL, currentForm and
\* lastUpdateTime are the ctl, atl, form and date of
\* formHistory[formHistoryCount - 1].
C13_SnapshotIsLast ==
    formHistoryCount > 0 =>
        /\ currentCTL = formHistory[formHistoryCount - 1].ctl
        /\ currentATL = formHistory[formHistoryCount - 1].atl
        /\ currentForm = formHistory[formHistoryCount - 1].form
        /\ lastUpdateTime = formHistory[formHistoryCount - 1].date

\* a full history whose last element, not its first, is the snapshot
C13_Witness ==
    /\ formHistoryCount = FORM_HISTORY_DAYS
    /\ lastUpdateTime = DateString(FORM_HISTORY_DAYS)
    /\ lastUpdateTime = formHistory[FORM_HISTORY_DAYS - 1].date
    /\ currentCTL = formHistory[FORM_HISTORY_DAYS - 1].ctl
    /\ currentCTL # formHistory[0].ctl

\* C14: once setup() has finished, isAPMode and the registered route table
\* do not change and no radio call is made (connectToWiFi does not run
\* again) until the device restarts; the route table is the access-point
\* one exactly when isAPMode is set; and POST /connect stores the
\* credentials and restarts, leaving the mode as it is.
C14_ModeDecidedOnce ==
    [][pc = "serving" =>
          /\ routes \in {"ap", "station"}
          /\ (routes = "ap") <=> isAPMode
          /\ isAPMode' = isAPMode /\ routes' = routes /\ radioLog' = radioLog
          /\ pc' \in {"serving", "reset"}
          /\ ev'.op = "handleConnect" => pc' = "reset"]_vars

\* credentials were submitted to a device in access-point mode: it is still
\* in that mode, has made no join attempt and is about to restart
C14_Witness ==
    /\ pc = "reset" /\ ev.op = "handleConnect"
    /\ wifiSSID = STR_SSID /\ StoredSSID = STR_SSID
    /\ isAPMode /\ routes = "ap" /\ BeginCalls = 0

\* every byte of the EEPROM is zero
Erased(e) == \A a \in DOMAIN e : e[a] = 0

\* C15: POST /reset erases every persisted byte and restarts the device; in
\* the boot that follows, for as long as nothing is stored again, no WiFi
\* credentials and no API key are loaded, the schedule is the default
\* 06:00 at UTC-6, WiFi.begin is not called and the device serves in
\* access-point mode.
C15_ResetErasesAll ==
    [][/\ ev'.op = "handleReset" => (Erased(eeprom') /\ pc' = "reset")
       /\ (Erased(eeprom') /\ pc' \notin {"reset", "boot"}) =>
              /\ wifiSSID' = STR_EMPTY /\ wifiPassword' = STR_EMPTY /\ ~wifiConfigured'
              /\ apiKey' = STR_EMPTY /\ ~apiConfigured'
              /\ scheduleHour' = 6 /\ scheduleMinute' = 0 /\ gmtOffsetHours' = -6
              /\ radioLog' \in {<<>>, <<RadioOp("mode", "WIFI_AP"), RadioOp("softAP", "AP_SSID"),
                                       RadioOp("delay", "100")>>}
              /\ pc' \in {"apmode", "serving"}
              /\ pc' = "serving" => (isAPMode' /\ routes' = "ap")]_vars

\* the device serves in access-point mode on an erased EEPROM
C15_Witness ==
    /\ Erased(eeprom) /\ pc = "serving" /\ isAPMode /\ routes = "ap"
    /\ BeginCalls = 0 /\ ~wifiConfigured /\ ~apiConfigured
    /\ scheduleHour = 6 /\ scheduleMinute = 0 /\ gmtOffsetHours = -6

\* the last begin of the radio log carries the credentials (ssid, pass)
LastBeginIs(log, ssid, pass) ==
    /\ Len(log) > 0
    /\ \E i \in DOMAIN log :
          /\ log[i] = RadioBegin(ssid, pass)
          /\ \A j \in DOMAIN log : (j > i) => log[j].op # "begin"

\* C16: POST /connect with ssid s and password p sets the configured flag,
\* stores s and p so that they read back as posted, and restarts; each
\* WiFi.begin of a boot is called with exactly the stored pair, which is then
\* non-empty in its SSID; a boot on a stored empty SSID calls no WiFi.begin
\* and serves in access-point mode.
C16_JoinsWithPosted ==
    [][/\ ev'.op = "handleConnect" =>
              /\ pc' = "reset"
              /\ eeprom'[EEPROM_CONFIGURED_FLAG_ADDR] = 1
              /\ StoredSSID' = wifiSSID' /\ StoredPassword' = wifiPassword'
       /\ ev'.op = "begin" =>
              /\ StoredSSID' # STR_EMPTY
              /\ LastBeginIs(radioLog', StoredSSID', StoredPassword')
       /\ (pc' = "serving" /\ eeprom'[EEPROM_CONFIGURED_FLAG_ADDR] = 1 /\ StoredSSID' = STR_EMPTY)
              => (isAPMode' /\ \A i \in DOMAIN radioLog' : radioLog'[i].op # "begin")]_vars

DataEndpointOps == {"handleAPIForm", "handleAPIHistory"}
BackgroundOps == {"initialFetch", "tick", "loop"}

\* C17: apiConfigured is true exactly when the API key is non-empty; a step
\* issues an HTTP GET only with apiConfigured true; with apiConfigured false
\* /api/form and /api/history answer 400 with success=false and an error
\* text, and the boot refresh and the loop() pass call no refresh; none of
\* them issues a GET or changes the cached history.
C17_NoKeyNoRequest ==
    [][/\ apiConfigured' <=> (apiKey' # STR_EMPTY)
       /\ ev'.get => (apiConfigured /\ apiKey # STR_EMPTY)
       /\ (~apiConfigured /\ ev'.op \in DataEndpointOps) =>
              /\ ev'.code = 400 /\ ~ev'.success /\ ev'.key = "error"
              /\ ~ev'.started /\ ~ev'.get
              /\ UNCHANGED histVars
       /\ (~apiConfigured /\ ev'.op \in BackgroundOps) =>
              /\ ~ev'.started /\ ~ev'.get
              /\ UNCHANGED <<histVars, lastDailyFetchDate>>]_vars

\* a data endpoint has answered 400 on a station without an API key
C17_Witness ==
    /\ pc = "serving" /\ ~isAPMode /\ ~apiConfigured /\ apiKey = STR_EMPTY
    /\ ev.op \in DataEndpointOps /\ ev.code = 400 /\ ~ev.get

\* C18: setup() reaches the serving state of a station through exactly one
\* step of the initial fetch, which is taken nowhere else and calls
\* refreshFormHistory if and only if apiConfigured and timeSync hold; setup()
\* reaches the serving state of an access point through startAPMode with no
\* refresh, and no later step of an access point starts one.
C18_InitialRefreshGate ==
    [][/\ ev'.op = "initialFetch" =>
              /\ pc = "initfetch" /\ pc' = "serving" /\ ~isAPMode /\ routes = "station"
              /\ ev'.started <=> (apiConfigured /\ timeSync)
              /\ ~ev'.started => UNCHANGED <<histVars, lastDailyFetchDate>>
       /\ (pc # "serving" /\ pc' = "serving" /\ ~isAPMode') => ev'.op = "initialFetch"
       /\ (pc # "serving" /\ pc' = "serving" /\ isAPMode') =>
              /\ ev'.op = "startAPMode"
              /\ formHistoryCount' = 0 /\ lastDailyFetchDate' = STR_EMPTY
       /\ isAPMode' => (~ev'.started /\ ~ev'.get)]_vars

\* a station whose clock did not synchronise has skipped the initial fetch
\* although the API key is set
C18_WitnessSkipped ==
    /\ pc = "serving" /\ ~isAPMode /\ apiConfigured /\ ~timeSync
    /\ ev.op = "initialFetch" /\ ~ev.started /\ formHistoryCount = 0

\* a station has run the initial fetch
C18_Witness ==
    /\ pc = "serving" /\ ~isAPMode /\ apiConfigured /\ timeSync
    /\ ev.op = "initialFetch" /\ ev.started /\ ev.get

\* C19: handleSaveSchedule runs setupNTP with the offset it has just stored:
\* after the step the zone of the clock is the new gmtOffsetHours and
\* timeSync tells whether the clock is set, whatever timeSync was before;
\* lastDailyFetchDate keeps its value and the device is not restarted.
C19_SaveScheduleResyncs ==
    [][ev'.op = "handleSaveSchedule" =>
           /\ clock'.tz = gmtOffsetHours'
           /\ timeSync' = clock'.set
           /\ clock'.day = clock.day /\ clock'.hour = clock.hour /\ clock'.min = clock.min
           /\ lastDailyFetchDate' = lastDailyFetchDate
           /\ pc' = "serving"]_vars

\* a schedule was saved with a new offset on a device that has fetched today
C19_Witness ==
    /\ ev.op = "handleSaveSchedule" /\ pc = "serving"
    /\ lastDailyFetchDate # STR_EMPTY
    /\ gmtOffsetHours = 14 /\ clock.tz = 14 /\ timeSync

\* a schedule was saved while no time could be obtained
C19_WitnessNoTime ==
    /\ ev.op = "handleSaveSchedule" /\ pc = "serving"
    /\ gmtOffsetHours = 14 /\ clock.tz = 14 /\ ~timeSync /\ ~clock.set

\* C20: in every state the scheduled hour is in 0..23, the scheduled minute
\* in 0..59 and the offset from UTC in -12..14 hours, whatever was sent to
\* /saveschedule and whatever was then loaded from the EEPROM at a boot.
C20_ScheduleInRange ==
    /\ scheduleHour \in 0..23
    /\ scheduleMinute \in 0..59
    /\ gmtOffsetHours \in -12..14

\* a boot has loaded a schedule that was saved from arguments above the
\* ranges (minute 60 or 99999, offset -13)
C20_Witness ==
    /\ pc = "serving" /\ ev.op = "initialFetch"
    /\ scheduleHour = 23 /\ scheduleMinute = 59 /\ gmtOffsetHours = -12

StoredScheduleText ==
    readStringFromEEPROM(eeprom, EEPROM_SCHEDULE_TIME_ADDR, EEPROM_SCHEDULE_TIME_LEN)
StoredTzText == readStringFromEEPROM(eeprom, EEPROM_TZ_OFFSET_ADDR, EEPROM_TZ_OFFSET_LEN)
\* the stored schedule is one that loadCredentials accepts
StoredScheduleWellFormed ==
    /\ Len(StoredScheduleText) = 5 /\ StoredScheduleText[3] = CH_COLON
    /\ Len(StoredTzText) > 0

\* C21: handleSaveSchedule stores, within the request, a schedule that
\* loadCredentials accepts and reads back as the hour, minute and offset the
\* handler has assigned; loadCredentials at the next boot assigns exactly the
\* values read from the EEPROM, which no step between the save and the load
\* has changed.
C21_ScheduleSurvivesReboot ==
    [][/\ ev'.op = "handleSaveSchedule" =>
              /\ StoredScheduleWellFormed'
              /\ LoadedSchedule(eeprom') =
                     [hour |-> scheduleHour', minute |-> scheduleMinute', tz |-> gmtOffsetHours']
       /\ (pc = "boot" /\ StoredScheduleWellFormed) =>
              /\ eeprom' = eeprom
              /\ LoadedSchedule(eeprom) =
                     [hour |-> scheduleHour', minute |-> scheduleMinute', tz |-> gmtOffsetHours']
       /\ (pc \in {"reset", "boot"} \/ ev'.op = "powerCycle") => eeprom' = eeprom]_vars

\* a boot has loaded 23:59 at UTC+14, saved before the power cycle
C21_Witness ==
    /\ pc = "serving" /\ ev.op = "initialFetch"
    /\ StoredScheduleWellFormed
    /\ scheduleHour = 23 /\ scheduleMinute = 59 /\ gmtOffsetHours = 14

\* a call of refreshFormHistory is between formHistoryCount = 0 and its end
InProgress == run.owner # "none"
\* the step enters the handler of a waiting request
HandlerEntered == Len(inbox') < Len(inbox)

\* C22: while a refresh is in progress the only steps are the arrival of a
\* request, which touches neither the history nor the refresh, and the next
\* step of that same refresh; no handler is entered and no scheduler tick or
\* second refresh starts before it has ended.  A handler is entered only
\* with no refresh in progress, when the snapshot agrees with the history.
\* The refresh ends with the history refreshFormHistory computes in one
\* piece.
C22_NoInterleaving ==
    [][/\ InProgress =>
              /\ ev'.op \in {"arrive", "copy", run.owner}
              /\ run'.owner \in {run.owner, "none"}
              /\ ev'.op = "arrive" => UNCHANGED <<histVars, run>>
              /\ ~HandlerEntered
              /\ run'.owner = "none" =>
                     /\ formHistoryCount' = StoredCount(run.arr)
                     /\ formHistory' = StoredHistory(run.arr)
       /\ HandlerEntered =>
              /\ ~InProgress
              /\ C13_SnapshotIsLast]_vars

\* a scheduled refresh has copied one of two records while a request for
\* /api/form waits
C22_Witness ==
    /\ run.owner = "tick" /\ Len(run.arr) = 2 /\ run.i = 1 /\ formHistoryCount = 1
    /\ inbox # <<>> /\ Head(inbox) = "handleAPIForm"

\* C23: connectToWiFi starts at most 3 attempts and polls at most 60 times
\* in each, setupNTP polls at most 20 times, and a boot that has not reached
\* the serving loop reaches it, whatever the radio and the time source
\* report.
C23_BootTerminates ==
    /\ [](/\ retry <= 3 /\ BeginCalls <= 3
          /\ pc \in {"cond", "body", "after"} => attempts <= 60
          /\ pc = "ntp" => attempts <= 20)
    /\ (pc # "serving") ~> (pc = "serving" /\ routes \in {"ap", "station"})

\* the time source has not answered any of the 20 polls, after a join that
\* succeeded at the third attempt
C23_Witness ==
    /\ pc = "ntp" /\ attempts = 20 /\ ~clock.set /\ BeginCalls = 3

\* the third attempt has used all of its 60 polls
C23_WitnessPolls ==
    /\ pc = "after" /\ attempts = 60 /\ retry = 3

\* the step has answered a request through ServeRequest
Answered == "method" \in DOMAIN ev'
Requested == <<ev'.method, ev'.path>>
ProbeRequests ==
    {<<"GET", "/generate_204">>, <<"GET", "/gen_204">>, <<"GET", "/hotspot-detect.html">>,
     <<"GET", "/library/test/success.html">>, <<"GET", "/ncsi.txt">>,
     <<"GET", "/connecttest.txt">>, <<"GET", "/fwlink">>}
StationRequestsKnown ==
    {<<"GET", "/">>, <<"POST", "/saveapi">>, <<"POST", "/saveschedule">>, <<"POST", "/reset">>,
     <<"GET", "/api/form">>, <<"GET", "/api/history">>}

C24_WitnessStation ==
    /\ pc = "serving" /\ ~isAPMode /\ "method" \in DOMAIN ev
    /\ ev.path = "/generate_204" /\ ev.code = 404

WritingOps == {"handleConnect", "handleSaveAPI", "handleSaveSchedule", "handleReset"}

\* C25: a restart empties lastDailyFetchDate, whatever it held, and it stays
\* empty until setup() reaches the initial fetch; the EEPROM is written only
\* by /connect, /saveapi, /saveschedule and /reset, none of which is a
\* refresh, and no step that changes lastDailyFetchDate writes the EEPROM.
C25_MarkerNotPersisted ==
    [][/\ pc = "reset" => lastDailyFetchDate' = STR_EMPTY
       /\ pc' \notin {"reset", "serving"} => lastDailyFetchDate' = STR_EMPTY
       /\ eeprom' # eeprom => ev'.op \in WritingOps
       /\ lastDailyFetchDate' # lastDailyFetchDate => eeprom' = eeprom]_vars

\* a restart is pending on a device whose marker is set
C25_Witness ==
    /\ pc = "reset" /\ ev.op = "powerCycle" /\ lastDailyFetchDate = DateString(1)

(***************************************************************************)
(* SpecDaily: one boot of a configured device over days in which time      *)
(* keeps advancing and the remote service eventually answers.  millis() is *)
(* a 32-bit counter, so the uptime samples are walked as a cycle: the last *)
(* sample holds the same count as the second one.  The local date changes  *)
(* only after the refresh of the day has succeeded, and the service fails  *)
(* only while fewer than MaxFailedTicks refreshes are logged.  The         *)
(* fairness conditions                                                     *)
(* are the hypotheses on the environment: the counter wraps (WF), and a    *)
(* due tick that the service answers with a usable array is taken when it  *)
(* is possible again and again (strong fairness of that step, written with *)
(* its enabling condition TickPossible).                                   *)
(***************************************************************************)
MaxFailedTicks == 3      \* scheduled refreshes logged before the service answers

UptimeWrap ==
    /\ pc = "serving"
    /\ uptime = Len(UptimeSamples)
    /\ Millis(uptime) = Millis(2)
    /\ uptime' = 2
    /\ ev' = Quiet("wrap")
    /\ UNCHANGED <<eeprom, ramVars, histVars, joinVars, pc, clock, routes, schedLog,
                   loopVars>>

\* a tick can start a refresh now or at a later sample of this cycle
TickPossible ==
    /\ pc = "serving" /\ ~isAPMode /\ apiConfigured /\ timeSync
    /\ RefreshDue(LocalTime(clock))
    /\ \E u \in DOMAIN UptimeSamples :
           u >= uptime /\ Above(Elapsed(Millis(u)), SCHEDULE_CHECK_MS)

\* the step of a tick whose refresh the service answered with a usable array
AnsweredTick ==
    /\ ev'.op = "tick" /\ ev'.started /\ ev'.resp = GoodResp
    /\ Len(schedLog') = Len(schedLog) + 1

InitDaily ==
    \E h \in {0, 6, 23}, m \in {0, 30}, sh \in ScheduleHours, sm \in ScheduleMinutes :
        PowerOn(ScheduledEEPROM(sh, sm, -6), ClockAtTime(1, h, m))

NextDaily ==
    \/ BootConnected
    \/ SetupStation(TRUE)
    \/ \E resp \in SchedResponses : InitialFetch(resp)
    \/ \E u \in DOMAIN UptimeSamples, resp \in SchedResponses :
           /\ resp # GoodResp => Len(schedLog) < MaxFailedTicks
           /\ SchedulerCheck(u, resp)
    \/ UptimeWrap
    \/ \E d \in 1..MaxDay, k \in DOMAIN DaySamples :
           /\ AdvanceClock(d, DaySamples[k][1], DaySamples[k][2])
           /\ lastDailyFetchDate = Today \/ FormatDate(LocalTime(clock')) = Today

SpecDaily ==
    /\ InitDaily /\ [][NextDaily]_vars
    /\ WF_vars(UptimeWrap)
    /\ ([]<>TickPossible => []<><<AnsweredTick>>_vars)

\* station mode with an API key and time sync, the local time at or after
\* the schedule, and no refresh of today recorded
DueToday ==
    /\ pc = "serving" /\ ~isAPMode /\ apiConfigured /\ timeSync
    /\ lastDailyFetchDate # Today
    /\ LexAtLeast(NowHM, <<scheduleHour, scheduleMinute>>)

\* a scheduled refresh of today has succeeded and is recorded in the marker
DoneToday ==
    /\ lastDailyFetchDate = Today
    /\ schedLog # <<>> /\ LastSched.ok /\ LastSched.date = Today

\* C26: in station mode with an API key and time sync, once the local time
\* is at or after the schedule and today's refresh has not succeeded, a
\* scheduled refresh eventually succeeds that day and sets lastDailyFetchDate
\* to today, provided the time source advances and the service eventually
\* answers before midnight; failed and missed ticks only delay it.
C26_DueEventuallyDone == DueToday ~> DoneToday

\* the refresh of day 2 succeeded after a failed tick of that day
C26_Witness ==
    /\ DoneToday /\ Today = DateString(2) /\ ev.op = "tick" /\ ev.ok
    /\ Len(schedLog) >= 3 /\ ~schedLog[Len(schedLog) - 1].ok
    /\ schedLog[Len(schedLog) - 1].date = Today

(***************************************************************************)
(* The join loop read by read (Spec): the radio may report any status at   *)
(* any read of WiFi.status().                                              *)
(***************************************************************************)
TerminalFailures == {WL_NO_SSID_AVAIL, WL_CONNECT_FAILED}
\* the poll just made read a status that ends the polling of the attempt
TerminalPoll == ev.op = "pollBody" /\ lastStatus \in TerminalFailures

\* the part of C27 about the polling: after a poll that read
\* WL_NO_SSID_AVAIL or WL_CONNECT_FAILED the next step of the join is the
\* read after the loop, with no poll and no loop test in between.
C27_PollingStops ==
    [][TerminalPoll => (ev'.op = "afterPoll" /\ radioLog' = radioLog)]_vars

\* C27: as soon as a poll of an attempt reads WL_NO_SSID_AVAIL or
\* WL_CONNECT_FAILED, polling stops without a further poll and the attempt
\* is counted as failed: connectToWiFi does not return true from it.
C27_TerminalPollFailsAttempt ==
    [][TerminalPoll =>
          /\ ev'.op = "afterPoll" /\ radioLog' = radioLog
          /\ pc' = "failed" /\ connectResult' # "true"]_vars

\* the part of C28 about the read after the polling loop: when it reports
\* WL_CONNECTED in attempt k, connectToWiFi returns true at once with
\* isAPMode = false, WiFi.begin called k times and no radio call after the
\* last WiFi.begin.
C28_DecidingReadReturns ==
    [][(pc = "after" /\ pc' = "station") =>
          /\ connectResult' = "true" /\ ~isAPMode'
          /\ retry \in 1..MAX_RETRIES /\ BeginCalls' = retry
          /\ radioLog' = radioLog /\ radioLog[Len(radioLog)].op = "begin"]_vars

\* C28: once a status read of attempt k has reported WL_CONNECTED,
\* connectToWiFi returns true with isAPMode = false and makes no further
\* attempt: the attempt does not fail, no backoff and no WiFi.begin follow,
\* and the join does not end in access-point mode.
C28_ConnectedReadSucceeds ==
    sawConnected =>
        /\ pc \notin {"failed", "attempt", "apmode"}
        /\ connectResult # "false"
        /\ radioLog[Len(radioLog)].op = "begin"

\* the polling loop of the attempt was left with all 60 polls made, none of
\* them having read a definitive failure, and no read so far having
\* reported WL_CONNECTED
PollsExhausted ==
    /\ pc = "after" /\ attempts = 60
    /\ lastStatus \notin TerminalFailures /\ ~sawConnected

BackoffIndexes ==
    {i \in DOMAIN radioLog : radioLog[i].op = "delay" /\ radioLog[i].arg = "3000"}
\* the call at position i is the wait of a backoff: a disconnect precedes
\* it, and the disconnect, the 500 ms pause and the WiFi.begin of the next
\* attempt follow it when the join has gone on
BackoffAt(i) ==
    /\ i > 1 /\ radioLog[i - 1] = RadioOp("disconnect", "true")
    /\ i + 3 <= Len(radioLog) =>
          /\ radioLog[i + 1] = RadioOp("disconnect", "true")
          /\ radioLog[i + 2] = RadioOp("delay", "500")
          /\ radioLog[i + 3].op = "begin"

\* C30: after a failed attempt that is not the third, connectToWiFi
\* disconnects and waits 3 s, and the next attempt follows; after the third
\* failed attempt it makes no radio call and returns false; a join that
\* failed three times has made exactly 2 backoffs.
C30_BackoffBetweenAttempts ==
    /\ [][ev'.op = "attemptFailed" =>
             IF retry < 3
                THEN /\ radioLog' = radioLog \o <<RadioOp("disconnect", "true"),
                                                  RadioOp("delay", "3000")>>
                     /\ pc' = "attempt" /\ retry' = retry + 1
                     /\ connectResult' = "none"
                ELSE /\ radioLog' = radioLog
                     /\ connectResult' = "false"]_vars
    /\ [](/\ \A i \in BackoffIndexes : BackoffAt(i)
          /\ (connectResult = "false" /\ BeginCalls = 3) => Cardinality(BackoffIndexes) = 2
          /\ pc \in {"cond", "body", "after", "failed"} =>
                 Cardinality(BackoffIndexes) = retry - 1)

\* the join has failed three times and the device serves as access point
C30_Witness ==
    /\ connectResult = "false" /\ BeginCalls = 3 /\ pc = "serving" /\ isAPMode
    /\ Cardinality(BackoffIndexes) = 2

(***************************************************************************)
(* SpecTick: one boot of a device from the factory (access point), with    *)
(* WiFi credentials only, or fully configured; the time arriving or not at *)
(* boot and at each schedule save; passes of loop() at every uptime        *)
(* sample, the last of which lies after the wrap of millis().              *)
(***************************************************************************)
WiFiOnlyEEPROM == saveWiFiCredentials(FactoryEEPROM, STR_SSID, STR_PASS)

InitTick ==
    \E e \in {FactoryEEPROM, WiFiOnlyEEPROM, ConfiguredEEPROM} : PowerOn(e, ClockAt(1, 2))

NextTick ==
    \/ BootConnected
    \/ StartAPMode
    \/ \E arrives \in BOOLEAN : SetupStation(arrives)
    \/ \E resp \in SchedResponses : InitialFetch(resp)
    \/ \E u \in DOMAIN UptimeSamples, resp \in SchedResponses : SchedulerCheck(u, resp)
    \/ \E arrives \in BOOLEAN : handleSaveSchedule(STR_6, STR_ZERO, STR_AM, STR_TZ_WEST, arrives)

SpecTick == InitTick /\ [][NextTick]_vars

\* how many times millis() has wrapped at each uptime sample
UptimeWraps == <<0, 0, 0, 0, 0, 0, 1>>
\* the uptime of sample u in units of 65536 ms, and the rest
UptimeHigh(u) == UptimeWraps[u] * 65536 + Millis(u)[1]
UptimeLow(u) == Millis(u)[2]
\* the true time from sample p to sample u is more than n ms (n < 65536)
RealGapAbove(p, u, n) ==
    LET dh == UptimeHigh(u) - UptimeHigh(p)
        dl == UptimeLow(u) - UptimeLow(p)
    IN  dh >= 2 \/ (dh = 1 /\ 65536 + dl > n) \/ (dh = 0 /\ dl > n)
\* the true time from sample p to sample u is less than 2^32 ms
RealGapBelowWrap(p, u) ==
    LET dh == UptimeHigh(u) - UptimeHigh(p)
        dl == UptimeLow(u) - UptimeLow(p)
    IN  dh < 65536 \/ (dh = 65536 /\ dl < 0)
\* the sample at which lastScheduleCheck was taken (sample 1, uptime 0, for
\* its initial value)
LastCheckSample ==
    CHOOSE i \in 1..uptime :
        /\ Millis(i) = lastScheduleCheck
        /\ \A j \in 1..uptime : Millis(j) = lastScheduleCheck => j <= i
SchedulerGate == ~isAPMode /\ apiConfigured /\ timeSync

\* C31: maybeRunScheduledRefresh is called only in station mode with an API
\* key and time sync; a check is more than 30000 ms of true uptime after
\* the previous one (after boot for the first), also across the wrap of the
\* 32-bit millis(); and a pass of loop() with the gate open that makes no
\* check is at most 30000 ms after the previous check.
C31_ChecksGatedAndSpaced ==
    [][ev'.op \in {"tick", "loop"} =>
          /\ ev'.op = "tick" =>
                /\ SchedulerGate
                /\ RealGapAbove(LastCheckSample, uptime', 30000)
                /\ lastScheduleCheck' = Millis(uptime')
          /\ ev'.op = "loop" =>
                /\ lastScheduleCheck' = lastScheduleCheck
                /\ (SchedulerGate /\ RealGapBelowWrap(LastCheckSample, uptime')) =>
                       ~RealGapAbove(LastCheckSample, uptime', 30000)]_vars

\* a check 30001 ms after the previous one, millis() having wrapped between
C31_Witness ==
    /\ ev.op = "tick" /\ uptime = 7 /\ lastScheduleCheck = <<0, 30000>>
    /\ schedLog # <<>>

\* a pass of loop() in access-point mode, 90 s after boot
C31_WitnessGateClosed ==
    /\ ev.op = "loop" /\ isAPMode /\ uptime = 5 /\ lastScheduleCheck = <<0, 0>>

(***************************************************************************)
(* SpecSlots: the saves of the three forms over the boots of a device      *)
(* whose EEPROM is erased or holds another firmware's data (no zero byte   *)
(* anywhere), with fields shorter than, as long as and longer than their   *)
(* slots.                                                                  *)
(***************************************************************************)
Chars(n) == [i \in 1..n |-> 97]
ForeignEEPROM == [a \in 0..(EEPROM_SIZE - 1) |-> 120]
SlotSSIDs == {STR_SSID, Chars(31), Chars(32), Chars(33)}
SlotPasswords == {STR_EMPTY, STR_PASS, Chars(63), Chars(65)}
SlotKeys == {STR_EMPTY, STR_KEY, Chars(64), Chars(70)}
SlotAthleteIds == {STR_EMPTY, Chars(31), Chars(33)}

InitSlots == \E e \in {FactoryEEPROM, ForeignEEPROM} : PowerOn(e, ClockAt(1, 2))

NextSlots ==
    \/ \E kept \in BOOLEAN : Startup(kept)
    \/ BootConnected
    \/ StartAPMode
    \/ SetupStation(TRUE)
    \/ InitialFetch(FailResp)
    \/ \E ssid \in SlotSSIDs, password \in SlotPasswords : handleConnect(ssid, password)
    \/ \E key \in SlotKeys, athId \in SlotAthleteIds : handleSaveAPI(key, athId)
    \/ \E period \in {STR_AM, STR_PM}, tz \in {STR_TZ_WEST, STR_TZ_EAST} :
           handleSaveSchedule(STR_12, STR_ZERO, period, tz, TRUE)

SpecSlots == InitSlots /\ [][NextSlots]_vars

Slot(addr, len) == [addr |-> addr, len |-> len]
SlotRange(slot) == slot.addr..(slot.addr + slot.len - 1)
SSIDSlot == Slot(EEPROM_WIFI_SSID_ADDR, EEPROM_WIFI_SSID_LEN)
PassSlot == Slot(EEPROM_WIFI_PASS_ADDR, EEPROM_WIFI_PASS_LEN)
KeySlot == Slot(EEPROM_API_KEY_ADDR, EEPROM_API_KEY_LEN)
AthleteSlot == Slot(EEPROM_ATHLETE_ID_ADDR, EEPROM_ATHLETE_ID_LEN)
ScheduleSlot == Slot(EEPROM_SCHEDULE_TIME_ADDR, EEPROM_SCHEDULE_TIME_LEN)
TzSlot == Slot(EEPROM_TZ_OFFSET_ADDR, EEPROM_TZ_OFFSET_LEN)
AllSlots == {SSIDSlot, PassSlot, KeySlot, AthleteSlot, ScheduleSlot, TzSlot}
\* the slots a save writes
SlotsOf(op) ==
    IF op = "handleConnect" THEN {SSIDSlot, PassSlot}
    ELSE IF op = "handleSaveAPI" THEN {KeySlot, AthleteSlot}
    ELSE IF op = "handleSaveSchedule" THEN {ScheduleSlot, TzSlot}
    ELSE {}
SaveOps == {"handleConnect", "handleSaveAPI", "handleSaveSchedule"}
\* the slot holds a zero byte
Terminated(e, slot) == \E a \in SlotRange(slot) : e[a] = 0

\* C32: the slots of the layout and the flag byte do not overlap; a save of
\* the WiFi credentials, of the API credentials or of the schedule changes
\* bytes of its own two slots only (and, for the WiFi save, sets the flag to
\* 1), and leaves each of its slots holding a terminating zero byte.
C32_SavesStayInSlots ==
    /\ [](/\ \A s1, s2 \in AllSlots : s1 # s2 => SlotRange(s1) \cap SlotRange(s2) = {}
          /\ \A s1 \in AllSlots :
                /\ EEPROM_CONFIGURED_FLAG_ADDR \notin SlotRange(s1)
                /\ SlotRange(s1) \subseteq DOMAIN eeprom)
    /\ [][ev'.op \in SaveOps =>
             /\ \A a \in DOMAIN eeprom :
                   eeprom'[a] # eeprom[a] =>
                      \/ \E slot \in SlotsOf(ev'.op) : a \in SlotRange(slot)
                      \/ ev'.op = "handleConnect" /\ a = EEPROM_CONFIGURED_FLAG_ADDR
             /\ \A slot \in SlotsOf(ev'.op) : Terminated(eeprom', slot)
             /\ ev'.op = "handleConnect" => eeprom'[EEPROM_CONFIGURED_FLAG_ADDR] = 1]_vars

\* an API key of 70 characters has just been saved over another firmware's
\* data: the slot is full and the athlete id behind it is the one posted
C32_Witness ==
    /\ ev.op = "handleSaveAPI" /\ Len(apiKey) = 70
    /\ eeprom[EEPROM_API_KEY_ADDR + EEPROM_API_KEY_LEN - 1] = 0
    /\ eeprom[EEPROM_API_KEY_ADDR + EEPROM_API_KEY_LEN - 2] = 97
    /\ eeprom[EEPROM_CONFIGURED_FLAG_ADDR] = 1
    /\ eeprom[EEPROM_ATHLETE_ID_ADDR] = 48
    /\ eeprom[EEPROM_SCHEDULE_TIME_ADDR] = 120

(***************************************************************************)
(* scanNetworks (wifi.ino).  A scan is the sequence of results the radio   *)
(* reports, each with its SSID, RSSI and whether the network is open.  The *)
(* value returned is modelled by the entries of the option list, in order; *)
(* the HTML is built from them one option per entry.                       *)
(***************************************************************************)
MAX_NETWORKS == 20

ScanResult(ssid, rssi, open) == [ssid |-> ssid, rssi |-> rssi, open |-> open]

\* the inner loop: the index of the entry with this SSID, 0 when none
FoundAt(list, ssid) ==
    IF \E j \in DOMAIN list : list[j].ssid = ssid
       THEN CHOOSE j \in DOMAIN list :
                list[j].ssid = ssid /\ \A k \in DOMAIN list : list[k].ssid = ssid => j <= k
       ELSE 0

\* one pass of the outer loop's body
ScanStep(list, r) ==
    IF Len(r.ssid) = 0 THEN list
    ELSE LET j == FoundAt(list, r.ssid)
         IN  IF j = 0 THEN Append(list, r)
             ELSE IF r.rssi > list[j].rssi
                     THEN [list EXCEPT ![j] = [@ EXCEPT !.rssi = r.rssi, !.open = r.open]]
                     ELSE list

\* for (i = 0; i < n && uniqueCount < MAX_NETWORKS; i++)
RECURSIVE ScanLoop(_, _, _)
ScanLoop(scan, i, list) ==
    IF i > Len(scan) \/ Len(list) >= MAX_NETWORKS THEN list
    ELSE ScanLoop(scan, i + 1, ScanStep(list, scan[i]))

scanNetworks(scan) == ScanLoop(scan, 1, <<>>)

\* handleAPRoot: the setup page with the option list of a fresh scan
handleAPRootScan(scan) ==
    /\ pc = "serving" /\ routes = "ap"
    /\ ev' = Ev("handleAPRoot", FALSE, FALSE, FALSE, NoResp, 200, FALSE, "html")
                @@ [scan |-> scan, networks |-> scanNetworks(scan)]
    /\ UNCHANGED <<eeprom, ramVars, histVars, joinVars, pc, clock, uptime, routes,
                   schedLog, loopVars>>

(***************************************************************************)
(* SpecScan: a device from the factory serving its setup page.  A scan is  *)
(* k networks of distinct names followed by up to two more results: a      *)
(* hidden network, the first name again with a stronger or a weaker        *)
(* signal, or one more name.                                               *)
(***************************************************************************)
NetworkName(k) == <<64 + k>>
DistinctNetworks(k) == [i \in 1..k |-> ScanResult(NetworkName(i), -70, FALSE)]
TailResults ==
    {ScanResult(STR_EMPTY, -40, TRUE), ScanResult(NetworkName(1), -50, TRUE),
     ScanResult(NetworkName(1), -90, TRUE), ScanResult(NetworkName(26), -60, FALSE)}
ScanTails == {<<>>} \cup {<<a>> : a \in TailResults}
                    \cup {<<a, b>> : a \in TailResults, b \in TailResults}
ScanInputs == {DistinctNetworks(k) \o tail : k \in 0..(MAX_NETWORKS + 1), tail \in ScanTails}

InitScan == PowerOn(FactoryEEPROM, ClockAt(1, 2))

NextScan ==
    \/ LoadCredentials
    \/ StartAPMode
    \/ \E scan \in ScanInputs : handleAPRootScan(scan)

SpecScan == InitScan /\ [][NextScan]_vars

Scanned == "networks" \in DOMAIN ev
\* the scan results that carry this name
Carrying(scan, ssid) == {i \in DOMAIN scan : scan[i].ssid = ssid}
\* the results the outer loop has looked at: those up to and including the
\* one that filled the list
Processed(scan) ==
    {i \in DOMAIN scan : Len(ScanLoop(SubSeq(scan, 1, i - 1), 1, <<>>)) < MAX_NETWORKS}

\* the part of C33 that holds: the list has no empty name, no name twice
\* and at most 20 entries as C33 says; each listed name carries the
\* strongest RSSI among the results that were looked at before the list
\* was full.
C33_ListOfProcessed ==
    Scanned =>
        LET list == ev.networks
        IN  /\ Len(list) <= 20
            /\ \A j \in DOMAIN list :
                  /\ Len(list[j].ssid) > 0
                  /\ \A k \in DOMAIN list : list[k].ssid = list[j].ssid => k = j
                  /\ \E i \in Carrying(ev.scan, list[j].ssid) \cap Processed(ev.scan) :
                        list[j].rssi = ev.scan[i].rssi
                  /\ \A i \in Carrying(ev.scan, list[j].ssid) \cap Processed(ev.scan) :
                        list[j].rssi >= ev.scan[i].rssi

\* C33: the list built by scanNetworks has no hidden (empty) SSID, each
\* name at most once and at most 20 entries, and shows for each listed name
\* the strongest RSSI among all scan results carrying that name.
C33_ListShowsStrongest ==
    Scanned =>
        LET list == ev.networks
        IN  /\ Len(list) <= 20
            /\ \A j \in DOMAIN list :
                  /\ Len(list[j].ssid) > 0
                  /\ \A k \in DOMAIN list : list[k].ssid = list[j].ssid => k = j
                  /\ \A i \in Carrying(ev.scan, list[j].ssid) :
                        list[j].rssi >= ev.scan[i].rssi

\* the marker was written by the initial fetch of this boot: no scheduled
\* refresh has been started since the boot
MarkedAtBoot == schedLog = <<>> /\ lastDailyFetchDate # STR_EMPTY

\* C34: a successful initial refresh at boot sets lastDailyFetchDate to
\* today's local date and a failed one leaves it empty; after a successful
\* one no tick of the boot day starts a refresh, whatever the time of day
\* and the schedule; after a failed one a tick starts a refresh exactly when
\* the local time is at or after the schedule.
C34_BootFetchCountsForTheDay ==
    [][/\ ev'.op = "initialFetch" =>
             lastDailyFetchDate' = IF ev'.started /\ ev'.ok THEN Today ELSE STR_EMPTY
       /\ (ev'.op = "tick" /\ MarkedAtBoot /\ Today = lastDailyFetchDate) =>
             (~ev'.started /\ UNCHANGED <<lastDailyFetchDate, schedLog, histVars>>)
       /\ (ev'.op = "tick" /\ lastDailyFetchDate = STR_EMPTY) =>
             (ev'.started <=> LexAtLeast(NowHM, <<scheduleHour, scheduleMinute>>))]_vars

\* booted at local midnight with a successful initial refresh, schedule
\* 06:00: the tick at 06:00 of the same day has started nothing
C34_Witness ==
    /\ ev.op = "tick" /\ ~ev.started /\ MarkedAtBoot /\ lastDailyFetchDate = Today
    /\ scheduleHour = 6 /\ scheduleMinute = 0 /\ NowHM = <<6, 0>>

\* the initial refresh failed and the first tick at the scheduled time has
\* started a refresh
C34_WitnessFailedBoot ==
    /\ ev.op = "tick" /\ ev.started /\ Len(schedLog) = 1
    /\ scheduleHour = 6 /\ scheduleMinute = 0 /\ NowHM = <<6, 0>>

ManualRefreshOps == {"handleAPIForm", "handleAPIHistory"}

\* C35: a refresh through GET /api/form or GET /api/history, successful or
\* failed, leaves lastDailyFetchDate and the record of scheduled refreshes
\* unchanged; and the tick that follows it starts a refresh exactly when the
\* marker differs from today and the time is at or after the schedule, as
\* without the manual refresh.
C35_ManualRefreshKeepsMarker ==
    [][/\ ev'.op \in ManualRefreshOps =>
             /\ lastDailyFetchDate' = lastDailyFetchDate
             /\ schedLog' = schedLog
       /\ (ev.op \in ManualRefreshOps /\ ev'.op = "tick") =>
             (ev'.started <=>
                 (lastDailyFetchDate # Today
                     /\ LexAtLeast(NowHM, <<scheduleHour, scheduleMinute>>)))]_vars

\* a manual refresh has succeeded on a day whose scheduled refresh is due
\* and has not run: the marker is still empty
C35_Witness ==
    /\ ev.op \in ManualRefreshOps /\ ev.started /\ ev.ok /\ ev.code = 200
    /\ formHistoryCount > 0 /\ lastDailyFetchDate = STR_EMPTY /\ schedLog = <<>>
    /\ ~isAPMode /\ apiConfigured /\ timeSync
    /\ LexAtLeast(NowHM, <<scheduleHour, scheduleMinute>>)

\* the schedule and the timezone as the next boot would load them
StoredSchedule == LoadedSchedule(eeprom)

\* C36: POST /saveschedule leaves timeSync true exactly when the system
\* clock holds a time at the end of setupNTP, and persists the new schedule
\* and timezone either way; while timeSync is false no tick calls the
\* scheduler and no scheduled refresh is recorded, and timeSync becomes
\* true again only in a /saveschedule request or in the setupNTP of a boot.
C36_FailedResyncStopsScheduler ==
    [][/\ ev'.op = "handleSaveSchedule" =>
             /\ timeSync' = clock'.set
             /\ LoadedSchedule(eeprom') = [hour |-> scheduleHour', minute |-> scheduleMinute',
                                           tz |-> gmtOffsetHours']
       /\ ~timeSync =>
             /\ ev'.op # "tick"
             /\ schedLog' = schedLog \/ (ev'.op = "startup" /\ schedLog' = <<>>)
             /\ timeSync' => ev'.op \in {"handleSaveSchedule", "setupNTP"}]_vars

\* the re-sync of a schedule save has just failed on a device with an API
\* key: the schedule and timezone of the form are stored, timeSync is false
C36_Witness ==
    /\ ev.op = "handleSaveSchedule" /\ ~timeSync /\ ~clock.set
    /\ ~isAPMode /\ apiConfigured /\ pc = "serving"
    /\ StoredSchedule = [hour |-> 0, minute |-> 0, tz |-> 14]

(***************************************************************************)
(* SpecApi: the API form over the life of a device that has joined its     *)
(* network, with and without a stored key: keys that are empty, the mask,  *)
(* short and longer than the slot; athlete ids empty and not; schedule     *)
(* saves, the reset and restarts.                                          *)
(***************************************************************************)
ApiKeys == {STR_EMPTY, STR_MASK, STR_KEY, <<110, 107>>, Chars(70)}
ApiAthleteIds == {STR_EMPTY, STR_ZERO, <<105, 52, 50>>}

InitApi == \E e \in {WiFiOnlyEEPROM, ConfiguredEEPROM} : PowerOn(e, ClockAt(1, 2))

NextApi ==
    \/ \E kept \in BOOLEAN : Startup(kept)
    \/ BootConnected
    \/ StartAPMode
    \/ SetupStation(TRUE)
    \/ InitialFetch(FailResp)
    \/ handleConnect(STR_SSID, STR_PASS)
    \/ \E key \in ApiKeys, athId \in ApiAthleteIds : handleSaveAPI(key, athId)
    \/ \E period \in {STR_AM, STR_PM} :
           handleSaveSchedule(STR_6, STR_ZERO, period, STR_TZ_WEST, TRUE)
    \/ handleReset
    \/ PowerCycle

SpecApi == InitApi /\ [][NextApi]_vars

StoredKey(e) == readStringFromEEPROM(e, EEPROM_API_KEY_ADDR, EEPROM_API_KEY_LEN)
StoredAthleteId(e) == readStringFromEEPROM(e, EEPROM_ATHLETE_ID_ADDR, EEPROM_ATHLETE_ID_LEN)

\* C37: POST /saveapi with an empty key or with the mask "********" leaves
\* the key in RAM and the stored key as they were, and saves the posted
\* athlete id, "0" for an empty one; apiConfigured and the stored key, once
\* set, are lost in no /saveapi and no /saveschedule request: apiConfigured
\* turns false only in /reset (and at the reset vector of a restart, after
\* which loadCredentials finds the stored key), and the stored key becomes
\* empty only in /reset.
C37_MaskKeepsKey ==
    /\ [][/\ ev'.op = "handleSaveAPI" =>
                /\ ev'.apikey \in {STR_EMPTY, STR_MASK} =>
                      (apiKey' = apiKey /\ StoredKey(eeprom') = StoredKey(eeprom))
                /\ athleteId' = (IF ev'.athleteid = STR_EMPTY THEN STR_ZERO ELSE ev'.athleteid)
                /\ StoredAthleteId(eeprom') = athleteId'
                /\ apiConfigured => apiConfigured'
          /\ ev'.op = "handleSaveSchedule" =>
                (apiConfigured' = apiConfigured /\ StoredKey(eeprom') = StoredKey(eeprom))
          /\ (apiConfigured /\ ~apiConfigured') => ev'.op \in {"handleReset", "startup"}
          /\ (StoredKey(eeprom) # STR_EMPTY /\ StoredKey(eeprom') = STR_EMPTY) =>
                ev'.op = "handleReset"]_vars
    /\ [](pc = "serving" => (apiConfigured <=> StoredKey(eeprom) # STR_EMPTY))

\* the form was sent with the mask and a new athlete id on a device that
\* holds a key: the key is kept, the id stored
C37_Witness ==
    /\ ev.op = "handleSaveAPI" /\ ev.apikey = STR_MASK /\ ev.athleteid = <<105, 52, 50>>
    /\ apiKey = STR_KEY /\ StoredKey(eeprom) = STR_KEY /\ apiConfigured
    /\ StoredAthleteId(eeprom) = <<105, 52, 50>>

\* the form was sent with an empty key and an empty id on a device that
\* holds a key
C37_WitnessEmpty ==
    /\ ev.op = "handleSaveAPI" /\ ev.apikey = STR_EMPTY /\ ev.athleteid = STR_EMPTY
    /\ Len(apiKey) = 70 /\ Len(StoredKey(eeprom)) = 63 /\ apiConfigured
    /\ StoredAthleteId(eeprom) = STR_ZERO

(***************************************************************************)
(* SpecAP: boots of a device from the factory and of a configured one      *)
(* whose network answers or does not, so that the access point also comes  *)
(* up on a device that holds an API key; every request path in both        *)
(* modes, the data endpoints and the passes of loop().                     *)
(***************************************************************************)
APPaths == {"/", "/generate_204", "/favicon.ico", "/saveapi", "/api/form", "/api/history"}

InitAP == \E e \in {FactoryEEPROM, ConfiguredEEPROM} : PowerOn(e, ClockAt(1, 2))

NextAP ==
    \/ Startup(TRUE)
    \/ LoadCredentials
    \/ ConnectEntry
    \/ AttemptBegin
    \/ \E st \in LifeStatuses : PollCond(st)
    \/ \E st \in LifeStatuses : PollBody(st)
    \/ \E st \in LifeStatuses : AfterPoll(st)
    \/ \E st \in LifeStatuses : AttemptFailed(st)
    \/ StartAPMode
    \/ SetupStation(TRUE)
    \/ \E resp \in SchedResponses : InitialFetch(resp)
    \/ handleConnect(STR_SSID, STR_PASS)
    \/ \E method \in RequestMethods, path \in APPaths : ServeRequest(method, path)
    \/ \E resp \in SchedResponses : handleAPIForm(resp)
    \/ \E resp \in SchedResponses : handleAPIHistory(resp)
    \/ \E u \in 1..MaxUptime, resp \in SchedResponses : SchedulerCheck(u, resp)
    \/ PowerCycle

SpecAP == InitAP /\ [][NextAP]_vars

\* C38: no step that leaves the device in access-point mode starts a
\* refresh or issues a request to the remote service, and none changes
\* formHistory, its count, the current snapshot, lastDailyFetchDate or the
\* time of the last scheduler check; while the access point serves, no
\* method and path is routed to a data endpoint.
C38_AccessPointFetchesNothing ==
    /\ [][isAPMode' =>
             /\ ~ev'.started /\ ~ev'.get
             /\ UNCHANGED <<histVars, lastDailyFetchDate, lastScheduleCheck, schedLog>>]_vars
    /\ [](isAPMode /\ pc = "serving" =>
             \A method \in RequestMethods, path \in RequestPaths :
                 RouteOf(routes, method, path) \notin DataEndpointOps)

\* a pass of loop() on an access point that holds an API key
C38_Witness ==
    /\ isAPMode /\ pc = "serving" /\ apiConfigured /\ wifiConfigured
    /\ ev.op = "loop" /\ uptime > 1

\* GET /api/form on an access point that holds an API key: redirected
C38_WitnessRedirected ==
    /\ isAPMode /\ pc = "serving" /\ apiConfigured
    /\ ev.op = "handleNotFound" /\ ev.path = "/api/form" /\ ev.method = "GET" /\ ev.code = 302

(***************************************************************************)
(* SpecString: writeStringToEEPROM called on its own, once or twice, with  *)
(* strings shorter than, as long as and longer than the slot, at slots of  *)
(* the sizes of the layout and of the smallest sizes, over an EEPROM from  *)
(* the factory, one the firmware has written and one full of foreign       *)
(* bytes.                                                                  *)
(***************************************************************************)
WriteStrings == {STR_EMPTY, <<97>>, <<1, 254>>, <<200, 32, 65, 66>>, Chars(5), STR_SSID_32,
                 [i \in 1..31 |-> 98], [i \in 1..63 |-> 99], Chars(64), Chars(70)}
WriteSizes == {1, 2, EEPROM_TZ_OFFSET_LEN, EEPROM_SCHEDULE_TIME_LEN, EEPROM_WIFI_SSID_LEN,
               EEPROM_API_KEY_LEN}
WriteAddrs == {EEPROM_WIFI_SSID_ADDR, EEPROM_API_KEY_ADDR, EEPROM_TZ_OFFSET_ADDR}

\* one call writeStringToEEPROM(addr, data, maxLen); a second call may follow
WriteString(addr, data, maxLen) ==
    /\ ev.op = "writeStringToEEPROM" => ~ev.again
    /\ eeprom' = writeStringToEEPROM(eeprom, addr, data, maxLen)
    /\ ev' = Quiet("writeStringToEEPROM")
                 @@ [addr |-> addr, data |-> data, maxLen |-> maxLen,
                     again |-> ev.op = "writeStringToEEPROM",
                     before |-> readStringFromEEPROM(eeprom, addr, maxLen)]
    /\ UNCHANGED <<ramVars, histVars, joinVars, pc, clock, uptime, routes, schedLog, loopVars>>

InitString ==
    \E e \in {FactoryEEPROM, ConfiguredEEPROM, ForeignEEPROM} : PowerOn(e, ClockAt(1, 2))

NextString ==
    \E addr \in WriteAddrs, data \in WriteStrings, maxLen \in WriteSizes :
        WriteString(addr, data, maxLen)

SpecString == InitString /\ [][NextString]_vars

FirstChars(str, n) == IF Len(str) <= n THEN str ELSE SubSeq(str, 1, n)

\* C39: after writeStringToEEPROM(addr, s, maxLen) with s free of NUL and
\* 0xFF bytes and maxLen >= 1, readStringFromEEPROM(addr, maxLen) returns s
\* when Len(s) <= maxLen - 1 and the first maxLen - 1 characters of s
\* otherwise, whatever the slot held before.
C39_ReadReturnsWritten ==
    [](ev.op = "writeStringToEEPROM" =>
          readStringFromEEPROM(eeprom, ev.addr, ev.maxLen)
              = FirstChars(ev.data, ev.maxLen - 1))

\* a 32-character SSID written to the SSID slot that held 32 foreign
\* characters: its first 31 characters are read back
C39_Witness ==
    /\ ev.op = "writeStringToEEPROM"
    /\ ev.addr = EEPROM_WIFI_SSID_ADDR /\ ev.maxLen = EEPROM_WIFI_SSID_LEN
    /\ ev.data = STR_SSID_32 /\ Len(ev.before) = 32
    /\ Len(readStringFromEEPROM(eeprom, ev.addr, ev.maxLen)) = 31

\* a short string written over a longer one in the same slot
C39_WitnessShorter ==
    /\ ev.op = "writeStringToEEPROM" /\ ev.again
    /\ ev.maxLen = EEPROM_API_KEY_LEN /\ ev.data = <<1, 254>> /\ Len(ev.before) = 63
    /\ readStringFromEEPROM(eeprom, ev.addr, ev.maxLen) = <<1, 254>>

====
